---- MODULE Spec2Model ----
(***************************************************************************)
(* Model of the query tool of postgres-mcp-server (src/tools/query.ts):    *)
(* input validation, the SQL safety gate, the pagination rewriter, the     *)
(* textual parameter substitution and the execution / error classifier.    *)
(*                                                                         *)
(* A JavaScript string is a sequence of characters; a character is a       *)
(* one-character TLA+ string; the NUL character is written "NUL" and the    *)
(* grave accent "BACKTICK".                                                *)
(* A JavaScript value is a record [t |-> type tag, v |-> payload].         *)
(***************************************************************************)
EXTENDS Integers, Sequences, FiniteSets, TLC

(***************************************************************************)
(* Bounds of the model.                                                    *)
(***************************************************************************)
MaxStmtTokens == 3
MaxParams == 2
MaxRows == 1
MaxErrFragments == 2
MaxInstances == 3
MaxClosers == 2

(***************************************************************************)
(* JavaScript string primitives.                                           *)
(***************************************************************************)
LowerLetters ==
  <<"a","b","c","d","e","f","g","h","i","j","k","l","m",
    "n","o","p","q","r","s","t","u","v","w","x","y","z">>

UpperLetters ==
  <<"A","B","C","D","E","F","G","H","I","J","K","L","M",
    "N","O","P","Q","R","S","T","U","V","W","X","Y","Z">>

Digits == <<"0","1","2","3","4","5","6","7","8","9">>

Range(f) == {f[i] : i \in DOMAIN f}

LowerSet == Range(LowerLetters)

\* the upper-case form of every lower-case letter
UpperOf == [c \in LowerSet |-> UpperLetters[CHOOSE i \in 1..26 : LowerLetters[i] = c]]

\* String.prototype.toUpperCase on one (ASCII) character
toUpperChar(c) == IF c \in LowerSet THEN UpperOf[c] ELSE c

\* String.prototype.toUpperCase
toUpperCase(s) == [i \in 1..Len(s) |-> toUpperChar(s[i])]

\* white space as String.prototype.trim strips it
isWhiteSpace(c) == c \in {" ", "\t", "\n", "\r"}

\* String.prototype.trim
trim(s) ==
  IF \A i \in 1..Len(s) : isWhiteSpace(s[i])
    THEN << >>
    ELSE LET a == CHOOSE i \in 1..Len(s) :
                    /\ ~isWhiteSpace(s[i])
                    /\ \A j \in 1..(i-1) : isWhiteSpace(s[j])
             b == CHOOSE i \in 1..Len(s) :
                    /\ ~isWhiteSpace(s[i])
                    /\ \A j \in (i+1)..Len(s) : isWhiteSpace(s[j])
         IN  SubSeq(s, a, b)

\* does pattern p occur in s at position i
occursAt(s, p, i) ==
  /\ i >= 1
  /\ i + Len(p) - 1 <= Len(s)
  /\ \A j \in 1..Len(p) : s[i + j - 1] = p[j]

\* String.prototype.includes
includes(s, p) == \E i \in 1..(Len(s) + 1) : occursAt(s, p, i)

\* String.prototype.startsWith
startsWith(s, p) == occursAt(s, p, 1)

WordChars == Range(LowerLetters) \cup Range(UpperLetters) \cup Range(Digits) \cup {"_"}

\* the regular-expression class \w
isWordChar(c) == c \in WordChars

\* the regular-expression assertion \b between s[i-1] and s[i]
wordBoundary(s, i) ==
  LET before == i > 1 /\ i - 1 <= Len(s) /\ isWordChar(s[i-1])
      after  == i >= 1 /\ i <= Len(s) /\ isWordChar(s[i])
  IN  before # after

\* the test of the regular expression \bword\b with flag i on s
testWordRegex(s, word) ==
  LET u == toUpperCase(s)
      w == toUpperCase(word)
  IN  \E i \in 1..Len(s) :
        /\ wordBoundary(s, i)
        /\ occursAt(u, w, i)
        /\ wordBoundary(s, i + Len(word))

(***************************************************************************)
(* Configuration read from the environment (query.ts lines 9-14).          *)
(***************************************************************************)
MAX_PAGE_SIZE_DEFAULT == 500
DEFAULT_PAGE_SIZE_DEFAULT == 100

\* values of the READ_ONLY environment variable
ReadOnlyEnvValues == {"unset", "true", "false", "0"}

isReadOnlyMode_Always(env) == TRUE

isReadOnlyMode(env) == env.READ_ONLY # "false"

(***************************************************************************)
(* The SQL safety gate.                                                    *)
(***************************************************************************)
DANGEROUS_OPERATIONS ==
  << <<"D","R","O","P">>,
     <<"C","R","E","A","T","E">>,
     <<"A","L","T","E","R">>,
     <<"T","R","U","N","C","A","T","E">>,
     <<"G","R","A","N","T">>,
     <<"R","E","V","O","K","E">>,
     <<"V","A","C","U","U","M">>,
     <<"A","N","A","L","Y","Z","E">>,
     <<"C","L","U","S","T","E","R">>,
     <<"R","E","I","N","D","E","X">>,
     <<"C","O","P","Y">>,
     <<"B","A","C","K","U","P">>,
     <<"R","E","S","T","O","R","E">>,
     <<"A","T","T","A","C","H">>,
     <<"D","E","T","A","C","H">>,
     <<"P","R","A","G","M","A">> >>

dangerousPatterns ==
  << <<"W","H","E","R","E"," ","1","=","1">>,
     <<"W","H","E","R","E"," ","1"," ","="," ","1">>,
     <<"W","H","E","R","E"," ","T","R","U","E">>,
     <<"W","H","E","R","E"," ","1">>,
     <<"W","H","E","R","E"," ","'","1","'","=","'","1","'">>,
     <<"W","H","E","R","E"," ","\"","1","\"","=","\"","1","\"">> >>

kwSELECT == <<"S","E","L","E","C","T">>
kwWITH == <<"W","I","T","H">>
kwEXPLAIN == <<"E","X","P","L","A","I","N">>
kwUPDATE == <<"U","P","D","A","T","E">>
kwDELETE == <<"D","E","L","E","T","E">>
kwWHERE == <<"W","H","E","R","E">>

ErrRequired == "SQL query is required and must be a string"
ErrEmpty == "SQL query cannot be empty"
ErrDangerous == "Dangerous operation is not allowed"
ErrReadOnly == "Only SELECT, WITH, and EXPLAIN queries are allowed in read-only mode"
ErrWhere == "UPDATE and DELETE operations must include a valid WHERE clause (not WHERE 1=1, WHERE true, etc.)"

validateWhereClause_NoTruePattern(upperSql) ==
  /\ includes(upperSql, kwWHERE)
  /\ \A k \in (DOMAIN dangerousPatterns) \ {3} :
       ~includes(upperSql, dangerousPatterns[k])

validateWhereClause(upperSql) ==
  /\ includes(upperSql, kwWHERE)
  /\ \A k \in DOMAIN dangerousPatterns : ~includes(upperSql, dangerousPatterns[k])

\* the first denylisted operation found in upperSql, 0 when there is none
firstDangerous_Substring(upperSql) ==
  LET hits == {k \in DOMAIN DANGEROUS_OPERATIONS :
                 includes(upperSql, DANGEROUS_OPERATIONS[k])}
  IN  IF hits = {} THEN 0 ELSE CHOOSE k \in hits : \A j \in hits : k <= j

firstDangerous(upperSql) ==
  LET hits == {k \in DOMAIN DANGEROUS_OPERATIONS :
                 testWordRegex(upperSql, DANGEROUS_OPERATIONS[k])}
  IN  IF hits = {} THEN 0 ELSE CHOOSE k \in hits : \A j \in hits : k <= j

\* the read-only-mode test of validateSqlSafety
startsReadOnly_Includes(upperSql) ==
  \/ includes(upperSql, kwSELECT)
  \/ includes(upperSql, kwWITH)
  \/ includes(upperSql, kwEXPLAIN)

startsReadOnly(upperSql) ==
  \/ startsWith(upperSql, kwSELECT)
  \/ startsWith(upperSql, kwWITH)
  \/ startsWith(upperSql, kwEXPLAIN)

validateSqlSafety(sqlString, env) ==
  IF sqlString = << >>
    THEN [isValid |-> FALSE, error |-> ErrRequired, dangerous |-> 0]
  ELSE
  LET trimmedSql == trim(sqlString)
      upperSql == toUpperCase(trimmedSql)
      d == firstDangerous(upperSql)
  IN  IF trimmedSql = << >>
        THEN [isValid |-> FALSE, error |-> ErrEmpty, dangerous |-> 0]
      ELSE IF d # 0
        THEN [isValid |-> FALSE, error |-> ErrDangerous, dangerous |-> d]
      ELSE IF isReadOnlyMode(env)
        THEN IF ~startsReadOnly(upperSql)
               THEN [isValid |-> FALSE, error |-> ErrReadOnly, dangerous |-> 0]
               ELSE [isValid |-> TRUE, error |-> "", dangerous |-> 0]
      ELSE IF (includes(upperSql, kwUPDATE) \/ includes(upperSql, kwDELETE))
              /\ ~validateWhereClause(upperSql)
        THEN [isValid |-> FALSE, error |-> ErrWhere, dangerous |-> 0]
      ELSE [isValid |-> TRUE, error |-> "", dangerous |-> 0]

isReadOnlyQuery_SelectOnly(sqlString) ==
  startsWith(toUpperCase(trim(sqlString)), kwSELECT)

isReadOnlyQuery(sqlString) ==
  LET upperSql == toUpperCase(trim(sqlString))
  IN  \/ startsWith(upperSql, kwSELECT)
      \/ startsWith(upperSql, kwWITH)
      \/ startsWith(upperSql, kwEXPLAIN)

(***************************************************************************)
(* JavaScript values: [t |-> tag, v |-> payload].                          *)
(*   "undefined", "null", "bool" (v: BOOLEAN), "num" (v: a finite integer),*)
(*   "frac" (v: an integer n; the number n + 1/2),                         *)
(*   "nonfinite" (v: "NaN", "Infinity" or "-Infinity"),                     *)
(*   "str" (v: a sequence of characters), "object" (any other value).      *)
(***************************************************************************)
Undefined == [t |-> "undefined", v |-> 0]
Null == [t |-> "null", v |-> 0]
Bool(b) == [t |-> "bool", v |-> b]
Num(n) == [t |-> "num", v |-> n]
Frac(n) == [t |-> "frac", v |-> n]
NonFinite(name) == [t |-> "nonfinite", v |-> name]
Str(s) == [t |-> "str", v |-> s]
Object == [t |-> "object", v |-> 0]

\* the typeof operator
typeOf(x) ==
  CASE x.t = "undefined" -> "undefined"
    [] x.t = "null" -> "object"
    [] x.t = "bool" -> "boolean"
    [] x.t \in {"num", "frac", "nonfinite"} -> "number"
    [] x.t = "str" -> "string"
    [] OTHER -> "object"

\* Number.isFinite
isFinite(x) == x.t \in {"num", "frac"}

\* String(n) for a non-negative integer
RECURSIVE natToString(_)
natToString(n) ==
  IF n < 10 THEN << Digits[n + 1] >>
  ELSE natToString(n \div 10) \o << Digits[(n % 10) + 1] >>

\* String(n) for an integer
numToString(n) == IF n < 0 THEN <<"-">> \o natToString(0 - n) ELSE natToString(n)

\* String(n + 1/2) for an integer n
fracToString(n) ==
  IF n < 0 THEN <<"-">> \o natToString(0 - n - 1) \o <<".", "5">>
           ELSE natToString(n) \o <<".", "5">>

(***************************************************************************)
(* The pagination rewriter.                                                *)
(***************************************************************************)
kwLIMIT == <<"L","I","M","I","T">>
kwOFFSET == <<"O","F","F","S","E","T">>
kwGROUPBY == <<"G","R","O","U","P"," ","B","Y">>
aggCOUNT == <<"C","O","U","N","T","(">>
aggSUM == <<"S","U","M","(">>
aggAVG == <<"A","V","G","(">>
aggMAX == <<"M","A","X","(">>
aggMIN == <<"M","I","N","(">>

isSingleRowAggregate_IgnoreGroupBy(upperSql) ==
  \/ includes(upperSql, aggCOUNT)
  \/ includes(upperSql, aggSUM)
  \/ includes(upperSql, aggAVG)
  \/ includes(upperSql, aggMAX)
  \/ includes(upperSql, aggMIN)

isSingleRowAggregate(upperSql) ==
  LET hasAggregates ==
        \/ includes(upperSql, aggCOUNT)
        \/ includes(upperSql, aggSUM)
        \/ includes(upperSql, aggAVG)
        \/ includes(upperSql, aggMAX)
        \/ includes(upperSql, aggMIN)
      hasGroupBy == includes(upperSql, kwGROUPBY)
  IN  hasAggregates /\ ~hasGroupBy

\* x || d for an optional number x
orDefault(x, d) == IF x.t = "num" /\ x.v # 0 THEN x.v ELSE d

min_First(a, b) == a

\* Math.min
min(a, b) == IF a <= b THEN a ELSE b

\* the test of applyPagination for "already has LIMIT or OFFSET"; the
\* result of applyPagination also names the branch taken: "unchanged" (already
\* has LIMIT or OFFSET), "aggregate" (single-row aggregate) or "paginated"
hasLimitOrOffset(upperSql) ==
  includes(upperSql, kwLIMIT) \/ includes(upperSql, kwOFFSET)

applyPagination(sqlString, pageSize, offset, cfg) ==
  LET upperSql == toUpperCase(sqlString)
      actualPageSize == min(orDefault(pageSize, cfg.DEFAULT_PAGE_SIZE), cfg.MAX_PAGE_SIZE)
      actualOffset == orDefault(offset, 0)
  IN  IF hasLimitOrOffset(upperSql)
        THEN [branch |-> "unchanged", sql |-> sqlString,
              actualPageSize |-> orDefault(pageSize, cfg.DEFAULT_PAGE_SIZE),
              actualOffset |-> orDefault(offset, 0)]
      ELSE IF isSingleRowAggregate(upperSql)
        THEN [branch |-> "aggregate", sql |-> sqlString,
              actualPageSize |-> actualPageSize,
              actualOffset |-> actualOffset]
      ELSE [branch |-> "paginated",
            sql |-> trim(sqlString) \o <<" ","L","I","M","I","T"," ">>
                      \o numToString(actualPageSize)
                      \o (IF actualOffset > 0
                            THEN <<" ","O","F","F","S","E","T"," ">>
                                   \o numToString(actualOffset)
                            ELSE << >>),
            actualPageSize |-> actualPageSize, actualOffset |-> actualOffset]

(***************************************************************************)
(* The parameter substitution engine.                                      *)
(***************************************************************************)
\* param.replace(/'/g, "''")
doubleQuotes(s) ==
  LET RECURSIVE go(_)
      go(i) == IF i > Len(s) THEN << >>
               ELSE (IF s[i] = "'" THEN <<"'", "'">> ELSE << s[i] >>) \o go(i + 1)
  IN  go(1)

\* .replace(/\\/g, "\\\\")
doubleBackslashes(s) ==
  LET RECURSIVE go(_)
      go(i) == IF i > Len(s) THEN << >>
               ELSE (IF s[i] = "\\" THEN <<"\\", "\\">> ELSE << s[i] >>) \o go(i + 1)
  IN  go(1)

\* .replace(/\0/g, "")
stripNul(s) == SelectSeq(s, LAMBDA c : c # "NUL")

\* the escapedValue of a string parameter
escapeString(s) ==
  <<"'">> \o stripNul(doubleBackslashes(doubleQuotes(s))) \o <<"'">>

\* the escapedValue of a parameter that has one (null, string, boolean,
\* finite number)
escapedValue(param) ==
  CASE param.t = "null" -> <<"N","U","L","L">>
    [] param.t = "str" -> escapeString(param.v)
    [] param.t = "bool" -> IF param.v THEN <<"T","R","U","E">>
                                     ELSE <<"F","A","L","S","E">>
    [] param.t = "frac" -> fracToString(param.v)
    [] OTHER -> numToString(param.v)

\* the placeholder text of the parameter at index i - 1
placeholder(i) == <<"$">> \o numToString(i)

\* does the regular expression \$n\b of placeholder ph match s at position i
placeholderAt(s, ph, i) ==
  occursAt(s, ph, i) /\ wordBoundary(s, i + Len(ph))

\* GetSubstitution of ECMAScript for a regular expression without capture
\* groups: the text String.prototype.replace inserts for the replacement
\* string repl when matched was found in str at position
getSubstitution(matched, str, position, repl) ==
  LET RECURSIVE go(_)
      go(j) ==
        IF j > Len(repl) THEN << >>
        ELSE IF repl[j] = "$" /\ j < Len(repl) /\ repl[j+1] = "$"
          THEN <<"$">> \o go(j + 2)
        ELSE IF repl[j] = "$" /\ j < Len(repl) /\ repl[j+1] = "&"
          THEN matched \o go(j + 2)
        ELSE IF repl[j] = "$" /\ j < Len(repl) /\ repl[j+1] = "BACKTICK"
          THEN SubSeq(str, 1, position - 1) \o go(j + 2)
        ELSE IF repl[j] = "$" /\ j < Len(repl) /\ repl[j+1] = "'"
          THEN SubSeq(str, position + Len(matched), Len(str)) \o go(j + 2)
        ELSE << repl[j] >> \o go(j + 1)
  IN  go(1)

\* finalSql.replace(<placeholder regular expression, flag g>, escapedValue)
replacePlaceholder(str, ph, repl) ==
  LET RECURSIVE go(_)
      go(i) ==
        IF i > Len(str) THEN << >>
        ELSE IF placeholderAt(str, ph, i)
          THEN getSubstitution(ph, str, i, repl) \o go(i + Len(ph))
        ELSE << str[i] >> \o go(i + 1)
  IN  go(1)

\* one call of the forEach callback: a non-finite number makes the callback
\* return before the replace, every other parameter is substituted
substituteOne(finalSql, param, index) ==
  IF typeOf(param) = "number" /\ ~isFinite(param)
    THEN finalSql
    ELSE replacePlaceholder(finalSql, placeholder(index), escapedValue(param))

\* validatedInput.parameters.forEach(...) starting from sqlText
RECURSIVE substituteFrom(_, _, _)
substituteFrom(finalSql, parameters, index) ==
  IF index > Len(parameters) THEN finalSql
  ELSE substituteFrom(substituteOne(finalSql, parameters[index], index),
                      parameters, index + 1)

substituteParameters(sqlText, parameters) == substituteFrom(sqlText, parameters, 1)

(***************************************************************************)
(* Input validation (validation.ts): QueryInputSchema and validateInput.   *)
(* An input is [sql, parameters, pageSize, offset]; parameters is          *)
(* Undefined or Array(sequence of values).                                 *)
(***************************************************************************)
Array(a) == [t |-> "array", v |-> a]

SQL_MAX_LENGTH == 50000
PAGE_SIZE_MIN == 1
PAGE_SIZE_MAX == 500

\* z.union([z.string(), z.number(), z.boolean(), z.null()]); z.number()
\* rejects NaN and accepts the infinities
parameterSchemaOk(p) ==
  \/ p.t \in {"str", "num", "frac", "bool", "null"}
  \/ p.t = "nonfinite" /\ p.v # "NaN"

\* z.number().min(lo): NaN is no number for zod, the comparison is the one
\* of JavaScript (n + 1/2 >= lo exactly when n >= lo, for integers)
numberAtLeast(x, lo) ==
  \/ x.t \in {"num", "frac"} /\ x.v >= lo
  \/ x.t = "nonfinite" /\ x.v = "Infinity"

\* z.number().min(lo).max(hi)
numberInRange(x, lo, hi) ==
  \/ x.t = "num" /\ x.v >= lo /\ x.v <= hi
  \/ x.t = "frac" /\ x.v >= lo /\ x.v + 1 <= hi

\* the path of the first issue found by QueryInputSchema.parse, "" when the
\* input conforms
QueryInputSchema(input) ==
  IF ~(input.sql.t = "str" /\ Len(input.sql.v) >= 1 /\ Len(input.sql.v) <= SQL_MAX_LENGTH)
    THEN "sql"
  ELSE IF ~(\/ input.parameters.t = "undefined"
            \/ /\ input.parameters.t = "array"
               /\ \A i \in DOMAIN input.parameters.v :
                    parameterSchemaOk(input.parameters.v[i]))
    THEN "parameters"
  ELSE IF ~(\/ input.pageSize.t = "undefined"
            \/ numberInRange(input.pageSize, PAGE_SIZE_MIN, PAGE_SIZE_MAX))
    THEN "pageSize"
  ELSE IF ~(\/ input.offset.t = "undefined"
            \/ numberAtLeast(input.offset, 0))
    THEN "offset"
  ELSE ""

validateInput(input) ==
  LET issue == QueryInputSchema(input)
  IN  [success |-> issue = "", error |-> issue]

(***************************************************************************)
(* Responses of queryTool: has is the set of populated fields.             *)
(***************************************************************************)
NoPagination == [hasMore |-> FALSE, pageSize |-> 0, offset |-> 0]

EmptyResponse ==
  [has |-> {}, error |-> "", code |-> "", hint |-> "", rows |-> 0,
   rowCount |-> 0, pagination |-> NoPagination]

ErrorResponse_WithRowCount(msg) ==
  [EmptyResponse EXCEPT !.has = {"error", "rowCount"}, !.error = msg]

\* return { error }
ErrorResponse(msg) == [EmptyResponse EXCEPT !.has = {"error"}, !.error = msg]

ErrInvalidParamType ==
  "Invalid parameter type - only string, number, boolean, and null are allowed"

\* the parameter type loop of queryTool
parameterTypesOk(parameters) ==
  \A i \in DOMAIN parameters :
    \/ parameters[i].t = "null"
    \/ typeOf(parameters[i]) \in {"string", "number", "boolean"}

(***************************************************************************)
(* The catch block of queryTool: classification of a thrown value.         *)
(* A thrown value is Str(message) for an Error and Object otherwise.       *)
(***************************************************************************)
msgUnknown == <<"U","n","k","n","o","w","n"," ","e","r","r","o","r"," ","o","c","c","u","r","r","e","d">>
subSyntax_Capitalised == <<"S","y","n","t","a","x"," ","e","r","r","o","r">>

subSyntax == <<"s","y","n","t","a","x"," ","e","r","r","o","r">>
subPermission == <<"p","e","r","m","i","s","s","i","o","n"," ","d","e","n","i","e","d">>
subAccess == <<"a","c","c","e","s","s"," ","d","e","n","i","e","d">>
subDuplicate == <<"d","u","p","l","i","c","a","t","e"," ","k","e","y"," ","v","a","l","u","e">>
subUnique == <<"u","n","i","q","u","e"," ","c","o","n","s","t","r","a","i","n","t">>
subForeign == <<"f","o","r","e","i","g","n"," ","k","e","y"," ","c","o","n","s","t","r","a","i","n","t">>
subRelation == <<"r","e","l","a","t","i","o","n">>
subNotExist == <<"d","o","e","s"," ","n","o","t"," ","e","x","i","s","t">>
subColumn == <<"c","o","l","u","m","n">>
subTimeout == <<"t","i","m","e","o","u","t">>
subCancelled == <<"c","a","n","c","e","l","l","e","d">>

Classified(msg, errorCode, hintText) ==
  [EmptyResponse EXCEPT !.has = {"error", "code", "hint"},
                        !.error = msg, !.code = errorCode, !.hint = hintText]

catchBlock_Unsanitised(thrown) == ErrorResponse("Unknown error occurred")

catchBlock(thrown) ==
  LET errorMessage == IF thrown.t = "str" THEN thrown.v ELSE msgUnknown
  IN  IF includes(errorMessage, subSyntax)
        THEN Classified("SQL syntax error - please check your query", "SYNTAX_ERROR",
               "Review your SQL syntax, check for missing keywords, proper quotes, and correct table/column names")
      ELSE IF includes(errorMessage, subPermission) \/ includes(errorMessage, subAccess)
        THEN Classified("Access denied - insufficient permissions", "PERMISSION_DENIED",
               "Contact your database administrator to grant necessary permissions")
      ELSE IF includes(errorMessage, subDuplicate) \/ includes(errorMessage, subUnique)
        THEN Classified("Duplicate value - this record already exists", "DUPLICATE_KEY",
               "Check for existing records with the same unique values before inserting")
      ELSE IF includes(errorMessage, subForeign)
        THEN Classified("Foreign key constraint violation", "FOREIGN_KEY_VIOLATION",
               "Ensure referenced records exist before creating relationships")
      ELSE IF includes(errorMessage, subRelation) /\ includes(errorMessage, subNotExist)
        THEN Classified("Table or view does not exist", "RELATION_NOT_FOUND",
               "Check table name spelling and schema. Use list_tables to see available tables")
      ELSE IF includes(errorMessage, subColumn) /\ includes(errorMessage, subNotExist)
        THEN Classified("Column does not exist", "COLUMN_NOT_FOUND",
               "Check column name spelling. Use describe_table to see available columns")
      ELSE IF includes(errorMessage, subTimeout) \/ includes(errorMessage, subCancelled)
        THEN Classified("Query timeout - operation took too long", "TIMEOUT",
               "Try optimizing your query or adding appropriate indexes")
      ELSE Classified("Database operation failed", "DATABASE_ERROR",
               "Check your query syntax and permissions, then try again")

\* the Error thrown by DatabaseManager.loadConfig when DB_PASSWORD is missing
msgPasswordRequired ==
  <<"D","B","_","P","A","S","S","W","O","R","D"," ","e","n","v","i","r","o","n","m","e","n","t",
    " ","v","a","r","i","a","b","l","e"," ","i","s"," ","r","e","q","u","i","r","e","d">>

\* does getDb() throw in this environment
getDbThrows(env) == env.DB_PASSWORD = "unset"

(***************************************************************************)
(* The database module: the DatabaseManager singleton, getDb and closeDb.  *)
(* A Kysely instance and the pool created with it carry the same number,   *)
(* 0 stands for null.  The record of the manager holds its fields and the  *)
(* history of the module: created counts the instances made by connect,    *)
(* destroyCalls[i] the calls of destroy() on instance i, ended the pools   *)
(* on which end() was called, closed the instances a completed close() had *)
(* destroyed, got the instance the last getDb returned (0 when none has    *)
(* returned since the last call or completion of closeDb), and closes the  *)
(* closeDb calls in flight.                                                *)
(***************************************************************************)
Instances == 1..MaxInstances

Closers == 1..MaxClosers

\* a closeDb call: pc is "idle", "destroy" (suspended at await
\* this.db.destroy()), "end" (suspended at await this.pool.end()), "done" or
\* "threw"; db and pool are the objects the awaits were called on; hadDb
\* tells whether this.db was set when close() was entered
NoClose == [pc |-> "idle", db |-> 0, pool |-> 0, hadDb |-> FALSE]

NoManager ==
  [instance |-> FALSE, db |-> 0, pool |-> 0, created |-> 0,
   destroyCalls |-> [i \in Instances |-> 0], ended |-> {}, closed |-> {},
   got |-> 0, closes |-> [c \in Closers |-> NoClose]]

\* DatabaseManager.getInstance: the constructor runs loadConfig, which
\* throws without DB_PASSWORD and leaves the static field unset
getInstanceThrows(d, e) == ~d.instance /\ getDbThrows(e)

getInstance(d) == [d EXCEPT !.instance = TRUE]

\* DatabaseManager.connect
connect(d) ==
  IF d.db # 0
    THEN d
    ELSE [d EXCEPT !.created = d.created + 1, !.pool = d.created + 1,
                   !.db = d.created + 1]

getDatabase_Reconnect(d) ==
  [d EXCEPT !.created = d.created + 1, !.pool = d.created + 1, !.db = d.created + 1]

\* DatabaseManager.getDatabase: the manager after the call; the value
\* returned is its db field
getDatabase(d) == IF d.db = 0 THEN connect(d) ELSE d

\* can the model still number the instance a call of getDb may create
canGetDb(d) == d.db # 0 \/ d.created < MaxInstances

\* getDb(): the manager after a call that returns
getDb(d) ==
  LET m == getDatabase(getInstance(d))
  IN  [m EXCEPT !.got = m.db]

\* the manager after a tool function has called getDb() in environment e
\* (inside its try block)
afterGetDb(d, e) == IF getInstanceThrows(d, e) THEN d ELSE getDb(d)


(***************************************************************************)
(* queryTool.  The function runs synchronously up to its single await (the *)
(* execute call) or to an early return; the await is resolved or rejected  *)
(* by the backend.                                                         *)
(***************************************************************************)
VARIABLES
  env,       \* process.env: [READ_ONLY, DB_PASSWORD] and, where a process
             \* is started with them, [MAX_PAGE_SIZE, DEFAULT_PAGE_SIZE]
  startEnv,  \* history: process.env as it was when the process started
  cfg,       \* [MAX_PAGE_SIZE, DEFAULT_PAGE_SIZE], set when the module loads
  pc,        \* "idle", "executing" (suspended at the await) or "returned"
  input,     \* the argument of the current call
  call,      \* the locals of the current call
  executed,  \* the statements handed to sql.raw(...).execute(db) by the call
  response,  \* the value the call's promise resolved with
  handler,   \* the call-tool request handler: its position, request and reply
  dbm        \* the DatabaseManager of the database module and its history

vars == <<env, startEnv, cfg, pc, input, call, executed, response, handler, dbm>>

NoInput ==
  [sql |-> Undefined, parameters |-> Undefined, pageSize |-> Undefined,
   offset |-> Undefined]

\* the value execute resolved with: the number of rows of result.rows and
\* result.numAffectedRows, -1 for a field the backend did not set
NoResult == [rows |-> -1, numAffectedRows |-> -1]

\* inputValid and sqlValid are inputValidation.success and
\* sqlValidation.isValid; replaceCalls counts the calls of finalSql.replace;
\* result is the value execute resolved with and error the value caught
NoCall ==
  [inputValid |-> FALSE, sqlValid |-> FALSE, readOnly |-> FALSE, branch |-> "",
   paginatedSql |-> << >>, finalSql |-> << >>,
   actualPageSize |-> 0, actualOffset |-> 0, replaceCalls |-> 0,
   result |-> NoResult, error |-> Undefined]

\* the text "Input validation failed: " followed by inputValidation.error
ValidationFailed(issue) ==
  CASE issue = "sql" -> "Input validation failed: sql"
    [] issue = "parameters" -> "Input validation failed: parameters"
    [] issue = "pageSize" -> "Input validation failed: pageSize"
    [] OTHER -> "Input validation failed: offset"

Returns(resp, locals) == [kind |-> "return", response |-> resp, locals |-> locals]
Awaits(locals) == [kind |-> "await", response |-> EmptyResponse, locals |-> locals]

\* the number of forEach callbacks that reach finalSql.replace
replaceCallCount(parameters) ==
  Cardinality({i \in DOMAIN parameters :
                 ~(typeOf(parameters[i]) = "number" /\ ~isFinite(parameters[i]))})

\* queryTool from its entry to the await or to an early return
queryToolBegin_NoChecks(in, e, c) ==
  LET trimmedSql == trim(in.sql.v)
      parameters == IF in.parameters.t = "array" THEN in.parameters.v ELSE << >>
      sendable == [i \in DOMAIN parameters |->
                     IF parameters[i].t = "object" THEN Null ELSE parameters[i]]
  IN  IF in.sql.t # "str" \/ ~validateSqlSafety(in.sql.v, e).isValid
        THEN Returns(ErrorResponse(ErrEmpty), NoCall)
      ELSE Awaits([NoCall EXCEPT
                     !.inputValid = TRUE, !.sqlValid = TRUE,
                     !.readOnly = isReadOnlyQuery(trimmedSql),
                     !.paginatedSql = trimmedSql,
                     !.finalSql = substituteParameters(trimmedSql, sendable),
                     !.replaceCalls = replaceCallCount(sendable)])

queryToolBegin(in, e, c) ==
  LET inputValidation == validateInput(in)
  IN  IF ~inputValidation.success
        THEN Returns(ErrorResponse(ValidationFailed(inputValidation.error)), NoCall)
      ELSE
      LET sqlValidation == validateSqlSafety(in.sql.v, e)
      IN  IF ~sqlValidation.isValid
            THEN Returns(ErrorResponse(sqlValidation.error),
                         [NoCall EXCEPT !.inputValid = TRUE])
          ELSE IF getDbThrows(e)
            THEN Returns(catchBlock(Str(msgPasswordRequired)),
                         [NoCall EXCEPT !.inputValid = TRUE, !.sqlValid = TRUE,
                                        !.error = Str(msgPasswordRequired)])
          ELSE
          LET trimmedSql == trim(in.sql.v)
              parameters == IF in.parameters.t = "array" THEN in.parameters.v ELSE << >>
          IN  IF isReadOnlyQuery(trimmedSql)
                THEN
                LET pg == applyPagination(trimmedSql, in.pageSize, in.offset, c)
                    locals == [NoCall EXCEPT !.inputValid = TRUE, !.sqlValid = TRUE,
                                             !.readOnly = TRUE,
                                             !.branch = pg.branch,
                                             !.paginatedSql = pg.sql,
                                             !.finalSql = pg.sql,
                                             !.actualPageSize = pg.actualPageSize,
                                             !.actualOffset = pg.actualOffset]
                IN  IF Len(parameters) > 0
                      THEN IF ~parameterTypesOk(parameters)
                             THEN Returns(ErrorResponse(ErrInvalidParamType), locals)
                             ELSE Awaits([locals EXCEPT
                                    !.finalSql = substituteParameters(pg.sql, parameters),
                                    !.replaceCalls = replaceCallCount(parameters)])
                      ELSE Awaits(locals)
                ELSE
                LET locals == [NoCall EXCEPT !.inputValid = TRUE, !.sqlValid = TRUE,
                                             !.finalSql = trimmedSql]
                IN  IF Len(parameters) > 0
                      THEN IF ~parameterTypesOk(parameters)
                             THEN Returns(ErrorResponse(ErrInvalidParamType), locals)
                             ELSE Awaits([locals EXCEPT
                                    !.finalSql = substituteParameters(trimmedSql, parameters),
                                    !.replaceCalls = replaceCallCount(parameters)])
                      ELSE Awaits(locals)

(***************************************************************************)
(* The call-tool request handler of the server: the schemas of the tools,  *)
(* the responses it builds and its catch block.                            *)
(***************************************************************************)
NAME_MAX_LENGTH == 63

\* the arguments of a request: absent, or an object with these properties
\* (Undefined for a property that is not given)
NoArguments == [t |-> "undefined", v |-> 0]
Arguments(a) == [t |-> "arguments", v |-> a]
NoProperties ==
  [sql |-> Undefined, parameters |-> Undefined, pageSize |-> Undefined,
   offset |-> Undefined, schema |-> Undefined, table |-> Undefined,
   includeSystemSchemas |-> Undefined, analyze |-> Undefined,
   buffers |-> Undefined, costs |-> Undefined, format |-> Undefined]

\* /^[a-zA-Z_][a-zA-Z0-9_]*$/
identifierRegex(s) ==
  /\ Len(s) >= 1
  /\ s[1] \in LowerSet \cup Range(UpperLetters) \cup {"_"}
  /\ \A i \in 2..Len(s) : s[i] \in LowerSet \cup Range(UpperLetters) \cup Range(Digits) \cup {"_"}

\* z.string().min(1).max(63).regex(...)
identifierSchemaOk(x) ==
  /\ x.t = "str"
  /\ Len(x.v) >= 1
  /\ Len(x.v) <= NAME_MAX_LENGTH
  /\ identifierRegex(x.v)

optional(x, ok) == x.t = "undefined" \/ ok

booleanSchemaOk(x) == x.t = "bool"

FormatValues == { <<"t","e","x","t">>, <<"j","s","o","n">>, <<"x","m","l">>, <<"y","a","m","l">> }

DescribeTableInputSchema(a) ==
  identifierSchemaOk(a.schema) /\ identifierSchemaOk(a.table)

ListTablesInputSchema(a) == optional(a.schema, identifierSchemaOk(a.schema))

ListSchemasInputSchema(a) ==
  optional(a.includeSystemSchemas, booleanSchemaOk(a.includeSystemSchemas))

ListIndexesInputSchema(a) ==
  identifierSchemaOk(a.schema) /\ optional(a.table, identifierSchemaOk(a.table))

ExplainQueryInputSchema(a) ==
  /\ a.sql.t = "str" /\ Len(a.sql.v) >= 1 /\ Len(a.sql.v) <= SQL_MAX_LENGTH
  /\ optional(a.analyze, booleanSchemaOk(a.analyze))
  /\ optional(a.buffers, booleanSchemaOk(a.buffers))
  /\ optional(a.costs, booleanSchemaOk(a.costs))
  /\ optional(a.format, a.format.t = "str" /\ a.format.v \in FormatValues)

GetTableStatsInputSchema(a) ==
  identifierSchemaOk(a.schema) /\ optional(a.table, identifierSchemaOk(a.table))

ListViewsInputSchema(a) == optional(a.schema, identifierSchemaOk(a.schema))

ListFunctionsInputSchema(a) == optional(a.schema, identifierSchemaOk(a.schema))

\* the properties of the arguments that queryTool is called with
queryInputOf(a) ==
  [sql |-> a.sql, parameters |-> a.parameters, pageSize |-> a.pageSize,
   offset |-> a.offset]

\* the tools of the switch statement of the handler
ToolNames ==
  {"query", "describe_table", "list_tables", "get_constraints", "list_schemas",
   "list_indexes", "explain_query", "get_table_stats", "list_views", "list_functions"}

\* validateInput(<schema of the case>, args).success
toolInputValid(name, args) ==
  /\ args.t = "arguments"
  /\ CASE name = "query" -> validateInput(queryInputOf(args.v)).success
       [] name = "describe_table" -> DescribeTableInputSchema(args.v)
       [] name = "list_tables" -> ListTablesInputSchema(args.v)
       [] name = "get_constraints" -> DescribeTableInputSchema(args.v)
       [] name = "list_schemas" -> ListSchemasInputSchema(args.v)
       [] name = "list_indexes" -> ListIndexesInputSchema(args.v)
       [] name = "explain_query" -> ExplainQueryInputSchema(args.v)
       [] name = "get_table_stats" -> GetTableStatsInputSchema(args.v)
       [] name = "list_views" -> ListViewsInputSchema(args.v)
       [] OTHER -> ListFunctionsInputSchema(args.v)

\* what the handler hands to the transport: a response object, or, when
\* kind is "thrown", an exception that leaves the handler
NoReply == [kind |-> "none", isError |-> FALSE, code |-> "", result |-> {}]

\* createSafeToolResponse(result): result is given by the properties it has
createSafeToolResponse(result) ==
  [kind |-> "response", isError |-> FALSE, code |-> "", result |-> result]

createErrorResponse_ToolError ==
  [kind |-> "response", isError |-> TRUE, code |-> "TOOL_EXECUTION_ERROR",
   result |-> {"error", "code", "timestamp"}]

\* createErrorResponse(error) with the default code
createErrorResponse ==
  [kind |-> "response", isError |-> TRUE, code |-> "VALIDATION_ERROR",
   result |-> {"error", "code", "timestamp"}]

handlerCatch_Rethrow == [NoReply EXCEPT !.kind = "thrown"]

\* the catch block of the handler
handlerCatch ==
  [kind |-> "response", isError |-> TRUE, code |-> "TOOL_EXECUTION_ERROR",
   result |-> {"error", "code", "timestamp", "hint"}]

\* the tools that query the catalog: list.ts, describe.ts, indexes.ts and
\* functions.ts
IntrospectionTools ==
  {"list_tables", "list_views", "describe_table", "get_constraints", "list_indexes",
   "list_functions"}

\* a call of an introspection tool: pc is "none", "executing" (suspended at
\* await query.execute(db)) or "returned"; has holds the properties of the
\* object returned ("data" for the array of the tool: tables, views,
\* columns, constraints, indexes or functions), error its error property and
\* thrown the value caught
NoTool == [pc |-> "none", has |-> {}, error |-> << >>, thrown |-> Undefined]

toolCatch_Sanitised(thrown) ==
  [pc |-> "returned", has |-> {"error"},
   error |-> <<"D","a","t","a","b","a","s","e"," ","o","p","e","r","a","t","i","o","n"," ","f","a","i","l","e","d">>,
   thrown |-> thrown]

\* the catch block of an introspection tool
toolCatch(thrown) ==
  [pc |-> "returned", has |-> {"error"},
   error |-> IF thrown.t = "str" THEN thrown.v ELSE msgUnknown,
   thrown |-> thrown]

\* return { <array>: result.rows }
toolData == [NoTool EXCEPT !.pc = "returned", !.has = {"data"}]

\* an introspection tool from its entry to its await: getDb() may throw
\* inside the try block
introspectionBegin(d, e) ==
  IF getInstanceThrows(d, e)
    THEN toolCatch(Str(msgPasswordRequired))
    ELSE [NoTool EXCEPT !.pc = "executing"]

\* pc is "idle", "awaiting" (the tool function has been called and its
\* promise is pending) or "replied"; invoked is the name of the tool whose
\* function was called, "" if none was; tool is the call of the introspection
\* tool, if one was called
NoHandler ==
  [pc |-> "idle", name |-> "", args |-> NoArguments, invoked |-> "", reply |-> NoReply,
   tool |-> NoTool]

\* the environments and configurations a process can start with
Envs(readOnlyValues, passwordValues) ==
  [READ_ONLY : readOnlyValues, DB_PASSWORD : passwordValues]

DefaultCfg ==
  [MAX_PAGE_SIZE |-> MAX_PAGE_SIZE_DEFAULT, DEFAULT_PAGE_SIZE |-> DEFAULT_PAGE_SIZE_DEFAULT]

InitWith(envs, cfgs) ==
  /\ env \in envs
  /\ startEnv = env
  /\ cfg \in cfgs
  /\ pc = "idle"
  /\ input = NoInput
  /\ call = NoCall
  /\ executed = << >>
  /\ response = EmptyResponse
  /\ handler = NoHandler
  /\ dbm = NoManager

\* the state after queryTool, called with in, has run to the outcome o
RunsTo(in, o) ==
  /\ input' = in
  /\ call' = o.locals
  /\ dbm' = IF o.locals.sqlValid THEN afterGetDb(dbm, env) ELSE dbm
  /\ IF o.kind = "return"
       THEN /\ pc' = "returned"
            /\ response' = o.response
            /\ executed' = << >>
       ELSE /\ pc' = "executing"
            /\ response' = EmptyResponse
            /\ executed' = << o.locals.finalSql >>

\* a call of queryTool with an input of the set inputs
QueryTool(inputs) ==
  /\ pc = "idle"
  /\ canGetDb(dbm)
  /\ \E in \in inputs : RunsTo(in, queryToolBegin(in, env, cfg))
  /\ UNCHANGED <<env, startEnv, cfg, handler>>

\* the backend's answers to a read statement (a number of rows) and to a
\* write statement (numAffectedRows, -1 when the backend reports none)
ReadResults == 0..MaxRows
WriteResults == (-1)..MaxRows

hasMore_NonEmpty(length, actualPageSize) == length > 0

\* hasMore: result.rows.length === actualPageSize
hasMore(length, actualPageSize) == length = actualPageSize

\* execute resolves: the result is shaped by the classification of the
\* original statement
ExecuteResolves ==
  /\ pc = "executing"
  /\ IF call.readOnly
       THEN \E n \in ReadResults :
              /\ call' = [call EXCEPT !.result = [NoResult EXCEPT !.rows = n]]
              /\ response' = [EmptyResponse EXCEPT
                               !.has = {"rows", "rowCount", "pagination"},
                               !.rows = n,
                               !.rowCount = n,
                               !.pagination = [hasMore |-> hasMore(n, call.actualPageSize),
                                               pageSize |-> call.actualPageSize,
                                               offset |-> call.actualOffset]]
       ELSE \E n \in WriteResults :
              /\ call' = [call EXCEPT !.result = [NoResult EXCEPT !.numAffectedRows = n]]
              /\ response' = [EmptyResponse EXCEPT
                               !.has = {"rowCount"},
                               !.rowCount = IF n > 0 THEN n ELSE 0]
  /\ pc' = "returned"
  /\ UNCHANGED <<env, startEnv, cfg, input, executed, handler, dbm>>

\* values execute can reject with: an Error with a message, or a non-Error
BackendErrors ==
  { Str(<<"s","y","n","t","a","x"," ","e","r","r","o","r"," ","a","t"," ","o","r"," ",
          "n","e","a","r"," ","\"","x","\"">>),
    Str(<<"c","o","n","n","e","c","t","i","o","n"," ","t","e","r","m","i","n","a","t","e","d">>),
    Object }

Rejects_Retrying(errors) ==
  /\ pc = "executing"
  /\ \E thrown \in errors :
       /\ call' = [call EXCEPT !.error = thrown]
       /\ response' = catchBlock(thrown)
  /\ pc' = "returned"
  /\ executed' = executed \o executed
  /\ UNCHANGED <<env, startEnv, cfg, input, handler, dbm>>

\* execute rejects: the catch block classifies the thrown value
Rejects(errors) ==
  /\ pc = "executing"
  /\ \E thrown \in errors :
       /\ call' = [call EXCEPT !.error = thrown]
       /\ response' = catchBlock(thrown)
  /\ pc' = "returned"
  /\ UNCHANGED <<env, startEnv, cfg, input, executed, handler, dbm>>

ExecuteRejects == Rejects(BackendErrors)

\* the caller takes the response; the next call starts afresh
Return ==
  /\ pc = "returned"
  /\ pc' = "idle"
  /\ input' = NoInput
  /\ call' = NoCall
  /\ executed' = << >>
  /\ response' = EmptyResponse
  /\ UNCHANGED <<env, startEnv, cfg, handler, dbm>>

(***************************************************************************)
(* The actions of the call-tool request handler.                           *)
(***************************************************************************)
\* the handler's position after it received the request req
Received(req) == [NoHandler EXCEPT !.name = req.name, !.args = req.args]

\* a call-tool request: the switch on the tool name, the validation of the
\* arguments and the call of the tool function; an unknown name throws
\* inside the try block
CallTool(requests) ==
  /\ handler.pc = "idle"
  /\ pc = "idle"
  /\ canGetDb(dbm)
  /\ \E req \in requests :
       IF req.name \notin ToolNames
         THEN /\ handler' = [Received(req) EXCEPT !.pc = "replied", !.reply = handlerCatch]
              /\ UNCHANGED <<pc, input, call, executed, response, dbm>>
       ELSE IF ~toolInputValid(req.name, req.args)
         THEN /\ handler' = [Received(req) EXCEPT !.pc = "replied",
                                                  !.reply = createErrorResponse]
              /\ UNCHANGED <<pc, input, call, executed, response, dbm>>
       ELSE IF req.name = "query"
         THEN /\ handler' = [Received(req) EXCEPT !.pc = "awaiting", !.invoked = "query"]
              /\ RunsTo(queryInputOf(req.args.v),
                        queryToolBegin(queryInputOf(req.args.v), env, cfg))
       ELSE /\ handler' = [Received(req) EXCEPT
                              !.pc = "awaiting", !.invoked = req.name,
                              !.tool = IF req.name \in IntrospectionTools
                                         THEN introspectionBegin(dbm, env)
                                         ELSE NoTool]
            /\ dbm' = afterGetDb(dbm, env)
            /\ UNCHANGED <<pc, input, call, executed, response>>
  /\ UNCHANGED <<env, startEnv, cfg>>

\* queryTool has resolved: the handler serialises the result; JSON.stringify
\* throws for a row value it cannot represent, inside the try block
QueryToolReturns ==
  /\ handler.pc = "awaiting"
  /\ handler.invoked = "query"
  /\ pc = "returned"
  /\ \E serialisable \in BOOLEAN :
       /\ ~serialisable => ("rows" \in response.has /\ response.rows > 0)
       /\ handler' = [handler EXCEPT
                        !.pc = "replied",
                        !.reply = IF serialisable
                                    THEN createSafeToolResponse(response.has)
                                    ELSE handlerCatch]
  /\ UNCHANGED <<env, startEnv, cfg, pc, input, call, executed, response, dbm>>

\* the tool functions other than queryTool resolve with their data or with
\* an error property
ToolReturns ==
  /\ handler.pc = "awaiting"
  /\ handler.invoked # "query"
  /\ \E property \in {"data", "error"} :
       /\ handler.invoked \in IntrospectionTools =>
            (handler.tool.pc = "returned" /\ handler.tool.has = {property})
       /\ handler' = [handler EXCEPT !.pc = "replied",
                                     !.reply = createSafeToolResponse({property})]
  /\ UNCHANGED <<env, startEnv, cfg, pc, input, call, executed, response, dbm>>

\* the catalog query of an introspection tool resolves
CatalogResolves ==
  /\ handler.pc = "awaiting"
  /\ handler.tool.pc = "executing"
  /\ handler' = [handler EXCEPT !.tool = toolData]
  /\ UNCHANGED <<env, startEnv, cfg, pc, input, call, executed, response, dbm>>

\* the catalog query of an introspection tool rejects
CatalogRejects ==
  /\ handler.pc = "awaiting"
  /\ handler.tool.pc = "executing"
  /\ \E thrown \in BackendErrors : handler' = [handler EXCEPT !.tool = toolCatch(thrown)]
  /\ UNCHANGED <<env, startEnv, cfg, pc, input, call, executed, response, dbm>>

\* tool functions defined outside the files at hand, which may reject
ImportedTools == {"list_schemas", "explain_query", "get_table_stats"}

ToolThrows ==
  /\ handler.pc = "awaiting"
  /\ handler.invoked \in ImportedTools
  /\ handler' = [handler EXCEPT !.pc = "replied", !.reply = handlerCatch]
  /\ UNCHANGED <<env, startEnv, cfg, pc, input, call, executed, response, dbm>>

\* the transport takes the reply; the next request starts afresh
HandlerDone ==
  /\ handler.pc = "replied"
  /\ handler' = NoHandler
  /\ pc' = "idle"
  /\ input' = NoInput
  /\ call' = NoCall
  /\ executed' = << >>
  /\ response' = EmptyResponse
  /\ UNCHANGED <<env, startEnv, cfg, dbm>>

(***************************************************************************)
(* Statements are built by concatenating up to a bounded number of tokens. *)
(***************************************************************************)
RECURSIVE concat(_)
concat(ts) == IF ts = << >> THEN << >> ELSE Head(ts) \o concat(Tail(ts))

StatementsOver(tokens, n) ==
  { concat(ts) : ts \in UNION { [1..k -> tokens] : k \in 1..n } }

InputsOver(sqls, parameterLists, pageSizes, offsets) ==
  [sql : {Str(s) : s \in sqls}, parameters : parameterLists,
   pageSize : pageSizes, offset : offsets]

(***************************************************************************)
(* Spec: the safety gate on statements over the gate tokens, in read-only  *)
(* and in write mode.                                                      *)
(***************************************************************************)
GateTokens ==
  { <<"S","E","L","E","C","T">>, <<"w","i","t","h">>, <<"E","x","p","l","a","i","n">>,
    <<" ">>, <<"d","r","o","p">>, <<"C","R","E","A","T","E">>, <<"d","_","a","t">> }

GateInputs ==
  InputsOver(StatementsOver(GateTokens, MaxStmtTokens), {Undefined}, {Undefined},
             {Undefined})

Init == InitWith(Envs({"unset", "0", "false"}, {"set"}), {DefaultCfg})

Next ==
  \/ QueryTool(GateInputs)
  \/ ExecuteResolves
  \/ ExecuteRejects
  \/ Return

Spec == Init /\ [][Next]_vars

(***************************************************************************)
(* SpecWhere: the WHERE-clause check of write mode.  A statement is a head *)
(* followed by fewer than MaxStmtTokens tail tokens.                       *)
(***************************************************************************)
WhereHeads ==
  { <<"U","P","D","A","T","E"," ","t"," ","S","E","T"," ","x","=","1">>,
    <<"d","e","l","e","t","e"," ","f","r","o","m"," ","t">>,
    <<"S","E","L","E","C","T"," ","u","p","d","a","t","e","d">>,
    <<"I","N","S","E","R","T"," ","I","N","T","O"," ","t"," ","V","A","L","U","E","S"," ","(","1",")">>,
    <<" ">> }

WhereTails ==
  { <<" ","W","H","E","R","E"," ">>,
    <<" ","w","h","e","r","e"," ">>,
    <<"i","d","=","5">>,
    <<"1","=","1">>,
    <<"1"," ","="," ","1">>,
    <<"T","R","U","E">>,
    <<"'","1","'","=","'","1","'">>,
    <<"\"","1","\"","=","\"","1","\"">>,
    <<" ">> }

HeadedStatements(heads, tails, n) ==
  heads \cup { h \o t : h \in heads, t \in StatementsOver(tails, n - 1) }

WhereInputs ==
  InputsOver(HeadedStatements(WhereHeads, WhereTails, MaxStmtTokens), {Undefined},
             {Undefined}, {Undefined})

InitWhere == InitWith(Envs({"unset", "false"}, {"set"}), {DefaultCfg})

NextWhere ==
  \/ QueryTool(WhereInputs)
  \/ ExecuteResolves
  \/ ExecuteRejects
  \/ Return

SpecWhere == InitWhere /\ [][NextWhere]_vars

(***************************************************************************)
(* SpecSubst: parameter substitution.  Parameter lists of up to MaxParams  *)
(* values, on statements with placeholders, in both modes and with the     *)
(* database password present or missing.                                   *)
(***************************************************************************)
SubstStatements ==
  { <<"S","E","L","E","C","T"," ","*"," ","F","R","O","M"," ","t"," ","W","H","E","R","E"," ","n","a","m","e"," ","="," ","$","1">>,
    <<"S","E","L","E","C","T"," ","$","1",","," ","$","2",","," ","$","1","0",","," ","$","1","x">>,
    <<"U","P","D","A","T","E"," ","t"," ","S","E","T"," ","a"," ","="," ","$","2"," ","W","H","E","R","E"," ","i","d"," ","="," ","$","1">>,
    <<"S","E","L","E","C","T"," ","1">> }

ParamStrings ==
  { <<"O","'","B","r","i","e","n">>,
    <<"a","\\","NUL","b">>,
    <<"$">>,
    <<"$","2">> }

ParamValues ==
  {Null, Bool(TRUE), Bool(FALSE), Num(5), NonFinite("Infinity"), NonFinite("NaN"), Object}
    \cup {Str(v) : v \in ParamStrings}

ParamLists ==
  {Undefined} \cup {Array(a) : a \in UNION { [1..k -> ParamValues] : k \in 0..MaxParams }}

SubstInputs == InputsOver(SubstStatements, ParamLists, {Undefined}, {Undefined})

InitSubst ==
  InitWith({[READ_ONLY |-> "unset", DB_PASSWORD |-> "set"],
            [READ_ONLY |-> "false", DB_PASSWORD |-> "set"],
            [READ_ONLY |-> "false", DB_PASSWORD |-> "unset"]}, {DefaultCfg})

NextSubst ==
  \/ QueryTool(SubstInputs)
  \/ ExecuteResolves
  \/ ExecuteRejects
  \/ Return

SpecSubst == InitSubst /\ [][NextSubst]_vars

(***************************************************************************)
(* SpecPage: the pagination rewriter on read-only statements, with and     *)
(* without requested page size and offset, under the default configuration *)
(* and under one whose maximum is below its default page size.             *)
(***************************************************************************)
PageHeads ==
  { <<"S","E","L","E","C","T"," ","*"," ","F","R","O","M"," ","t">>,
    <<"S","E","L","E","C","T"," ","C","O","U","N","T","(","*",")"," ","F","R","O","M"," ","t">>,
    <<"s","e","l","e","c","t"," ","c","a","t",","," ","s","u","m","(","x",")"," ","f","r","o","m"," ","t">>,
    <<"S","E","L","E","C","T"," ","*"," ","F","R","O","M"," ","l","i","m","i","t","s">> }

PageTails ==
  { <<" ","L","I","M","I","T"," ","5">>,
    <<" ","o","f","f","s","e","t"," ","2">>,
    <<" ","G","R","O","U","P"," ","B","Y"," ","c","a","t">>,
    <<" ">> }

PageSizes == {Undefined, Num(1), Num(10)}
Offsets == {Undefined, Num(0), Num(20)}

SmallMaxCfg == [MAX_PAGE_SIZE |-> 5, DEFAULT_PAGE_SIZE |-> DEFAULT_PAGE_SIZE_DEFAULT]

PageInputs ==
  InputsOver(HeadedStatements(PageHeads, PageTails, MaxStmtTokens), {Undefined},
             PageSizes, Offsets)

InitPage == InitWith(Envs({"unset"}, {"set"}), {DefaultCfg, SmallMaxCfg})

NextPage ==
  \/ QueryTool(PageInputs)
  \/ ExecuteResolves
  \/ ExecuteRejects
  \/ Return

SpecPage == InitPage /\ [][NextPage]_vars

(***************************************************************************)
(* SpecMore: read statements with and without a LIMIT of their own, under  *)
(* the default configuration and under a maximum page size of one row, so  *)
(* that a result can fill a page.                                          *)
(***************************************************************************)
MoreTails == { <<" ","L","I","M","I","T"," ","5">> }

TinyMaxCfg == [MAX_PAGE_SIZE |-> 1, DEFAULT_PAGE_SIZE |-> DEFAULT_PAGE_SIZE_DEFAULT]

MoreInputs ==
  InputsOver(HeadedStatements(PageHeads, MoreTails, MaxStmtTokens - 1), {Undefined},
             PageSizes, {Undefined, Num(20)})

InitMore == InitWith(Envs({"unset"}, {"set"}), {DefaultCfg, TinyMaxCfg})

NextMore ==
  \/ QueryTool(MoreInputs)
  \/ ExecuteResolves
  \/ ExecuteRejects
  \/ Return

SpecMore == InitMore /\ [][NextMore]_vars

(***************************************************************************)
(* SpecErr: a read and a write statement whose execution is rejected with  *)
(* an Error whose message is put together from the fragments the catch     *)
(* block looks for, or with a value that is no Error.                      *)
(***************************************************************************)
ErrFragments ==
  { <<"s","y","n","t","a","x"," ","e","r","r","o","r">>,
    <<"p","e","r","m","i","s","s","i","o","n"," ","d","e","n","i","e","d">>,
    <<"a","c","c","e","s","s"," ","d","e","n","i","e","d">>,
    <<"d","u","p","l","i","c","a","t","e"," ","k","e","y"," ","v","a","l","u","e">>,
    <<"u","n","i","q","u","e"," ","c","o","n","s","t","r","a","i","n","t">>,
    <<"f","o","r","e","i","g","n"," ","k","e","y"," ","c","o","n","s","t","r","a","i","n","t">>,
    <<"r","e","l","a","t","i","o","n">>,
    <<" ","d","o","e","s"," ","n","o","t"," ","e","x","i","s","t">>,
    <<"c","o","l","u","m","n">>,
    <<"t","i","m","e","o","u","t">>,
    <<"c","a","n","c","e","l","l","e","d">>,
    <<"S","y","n","t","a","x"," ","E","r","r","o","r">> }

ErrorMessages == StatementsOver(ErrFragments, MaxErrFragments)

ClassifiedErrors == {Str(msg) : msg \in ErrorMessages} \cup {Object}

ErrStatements ==
  { <<"S","E","L","E","C","T"," ","1">>,
    <<"I","N","S","E","R","T"," ","I","N","T","O"," ","t"," ","V","A","L","U","E","S"," ","(","1",")">> }

ErrInputs == InputsOver(ErrStatements, {Undefined}, {Undefined}, {Undefined})

InitErr == InitWith(Envs({"unset", "false"}, {"set"}), {DefaultCfg})

ExecuteRejectsClassified == Rejects(ClassifiedErrors)

NextErr ==
  \/ QueryTool(ErrInputs)
  \/ ExecuteResolves
  \/ ExecuteRejectsClassified
  \/ Return

SpecErr == InitErr /\ [][NextErr]_vars

(***************************************************************************)
(* SpecHandler: call-tool requests for every tool and for an unknown one,  *)
(* with arguments absent, valid or invalid in one or more properties, with *)
(* and without DB_PASSWORD.                                                *)
(***************************************************************************)
RequestNames == ToolNames \cup {"drop_database"}

RequestProperties ==
  [sql : {Undefined, Str(<<"S","E","L","E","C","T"," ","1">>), Str(<<"D","R","O","P"," ","T","A","B","L","E"," ","t">>)},
   parameters : {Undefined, Array(<<Object>>)},
   pageSize : {Undefined, Num(0)},
   offset : {Undefined},
   schema : {Undefined, Str(<<"p","u","b","l","i","c">>), Str(<<"1","x">>)},
   table : {Undefined, Str(<<"u","s","e","r","s">>), Str(<<"a",";","b">>)},
   includeSystemSchemas : {Undefined, Str(<<"y","e","s">>)},
   analyze : {Undefined},
   buffers : {Undefined},
   costs : {Undefined},
   format : {Undefined, Str(<<"c","s","v">>)}]

HandlerRequests ==
  [name : RequestNames,
   args : {NoArguments} \cup {Arguments(a) : a \in RequestProperties}]

InitHandler == InitWith(Envs({"unset", "false"}, {"set", "unset"}), {DefaultCfg})

NextHandler ==
  \/ CallTool(HandlerRequests)
  \/ CatalogResolves
  \/ CatalogRejects
  \/ ExecuteResolves
  \/ ExecuteRejects
  \/ QueryToolReturns
  \/ ToolReturns
  \/ ToolThrows
  \/ HandlerDone

SpecHandler == InitHandler /\ [][NextHandler]_vars

(***************************************************************************)
(* Vocabulary of the properties.                                           *)
(***************************************************************************)
\* s, trimmed, starts with keyword kw in any letter case
startsWithWord(s, kw) ==
  LET t == trim(s)
  IN  /\ Len(t) >= Len(kw)
      /\ \A j \in 1..Len(kw) : toUpperChar(t[j]) = kw[j]

startsLikeQuery(s) ==
  \/ startsWithWord(s, <<"S","E","L","E","C","T">>)
  \/ startsWithWord(s, <<"W","I","T","H">>)
  \/ startsWithWord(s, <<"E","X","P","L","A","I","N">>)

\* the words of s in upper case: its maximal runs of letters, digits and
\* underscores
RECURSIVE wordEnd(_, _)
wordEnd(s, i) == IF i < Len(s) /\ isWordChar(s[i + 1]) THEN wordEnd(s, i + 1) ELSE i

upperWords(s) ==
  { [j \in 1..(wordEnd(s, i) - i + 1) |-> toUpperChar(s[i + j - 1])] :
      i \in { k \in 1..Len(s) : isWordChar(s[k]) /\ (k = 1 \/ ~isWordChar(s[k - 1])) } }

DenylistedWords ==
  { <<"D","R","O","P">>, <<"C","R","E","A","T","E">>, <<"A","L","T","E","R">>,
    <<"T","R","U","N","C","A","T","E">>, <<"G","R","A","N","T">>,
    <<"R","E","V","O","K","E">>, <<"V","A","C","U","U","M">>,
    <<"A","N","A","L","Y","Z","E">>, <<"C","L","U","S","T","E","R">>,
    <<"R","E","I","N","D","E","X">>, <<"C","O","P","Y">>, <<"B","A","C","K","U","P">>,
    <<"R","E","S","T","O","R","E">>, <<"A","T","T","A","C","H">>,
    <<"D","E","T","A","C","H">>, <<"P","R","A","G","M","A">> }

\* a denylisted keyword occurs in s as a whole word, in any letter case
hasDenylistedWord(s) == upperWords(s) \cap DenylistedWords # {}

\* the responses with which the safety gate rejects a statement
SafetyErrors == {ErrRequired, ErrEmpty, ErrDangerous, ErrReadOnly, ErrWhere}

rejectedBySafetyGate ==
  /\ pc = "returned"
  /\ response.has = {"error"}
  /\ response.error \in SafetyErrors

C2_DenylistWholeWords ==
  (pc # "idle" /\ input.sql.t = "str" /\ call.inputValid)
  => ((rejectedBySafetyGate /\ response.error = ErrDangerous)
        <=> hasDenylistedWord(input.sql.v))

C2_Witness ==
  /\ pc = "returned"
  /\ env.READ_ONLY = "false"
  /\ input.sql = Str(<<"S","E","L","E","C","T"," ","d","r","o","p">>)
  /\ response.error = ErrDangerous

\* pat occurs in the upper-cased text of s
upperContains(s, pat) ==
  \E i \in 1..Len(s) :
    /\ i + Len(pat) - 1 <= Len(s)
    /\ \A j \in 1..Len(pat) : toUpperChar(s[i + j - 1]) = pat[j]

TriviallyTruePatterns ==
  { <<"W","H","E","R","E"," ","1","=","1">>,
    <<"W","H","E","R","E"," ","1"," ","="," ","1">>,
    <<"W","H","E","R","E"," ","T","R","U","E">>,
    <<"W","H","E","R","E"," ","1">>,
    <<"W","H","E","R","E"," ","'","1","'","=","'","1","'">>,
    <<"W","H","E","R","E"," ","\"","1","\"","=","\"","1","\"">> }

mentionsUpdateOrDelete(s) ==
  upperContains(s, <<"U","P","D","A","T","E">>) \/ upperContains(s, <<"D","E","L","E","T","E">>)

hasEffectiveWhere(s) ==
  /\ upperContains(s, <<"W","H","E","R","E">>)
  /\ \A pat \in TriviallyTruePatterns : ~upperContains(s, pat)

\* a call in write mode with a statement free of denylisted keywords
writeModeCall ==
  /\ pc # "idle"
  /\ input.sql.t = "str"
  /\ call.inputValid
  /\ env.READ_ONLY = "false"
  /\ ~hasDenylistedWord(input.sql.v)

\* in write mode a non-denylisted statement that mentions UPDATE or DELETE
\* is allowed iff it contains WHERE and none of the six trivially-true
\* patterns; the three statements of the specification behave as listed
C3_UpdateDeleteNeedWhere ==
  /\ (writeModeCall /\ mentionsUpdateOrDelete(input.sql.v))
       => (call.sqlValid <=> hasEffectiveWhere(input.sql.v))
  /\ (writeModeCall /\ input.sql.v = <<"U","P","D","A","T","E"," ","t"," ","S","E","T"," ","x","=","1">>)
       => (~call.sqlValid /\ response.error = ErrWhere)
  /\ (writeModeCall /\ input.sql.v = <<"U","P","D","A","T","E"," ","t"," ","S","E","T"," ","x","=","1"," ","W","H","E","R","E"," ","1","=","1">>)
       => (~call.sqlValid /\ response.error = ErrWhere)
  /\ (writeModeCall /\ input.sql.v = <<"U","P","D","A","T","E"," ","t"," ","S","E","T"," ","x","=","1"," ","W","H","E","R","E"," ","i","d","=","5">>)
       => (call.sqlValid /\ executed # << >>)

\* C3 as stated: in write mode (READ_ONLY = 'false') a non-denylisted
\* statement that mentions UPDATE or DELETE is allowed iff it has a WHERE
\* that is none of the six trivially-true patterns, and a non-denylisted
\* statement that mentions neither UPDATE nor DELETE is always allowed.
C3_AsStated ==
  /\ C3_UpdateDeleteNeedWhere
  /\ (writeModeCall /\ ~mentionsUpdateOrDelete(input.sql.v)) => call.sqlValid

\* C3 as amended: as stated, except that a statement that mentions neither
\* UPDATE nor DELETE is allowed provided it is not blank (it has a character
\* that is not white space); a blank statement is rejected as empty.
C3_WriteModeGate ==
  /\ C3_UpdateDeleteNeedWhere
  /\ (writeModeCall /\ ~mentionsUpdateOrDelete(input.sql.v) /\ trim(input.sql.v) # << >>)
       => call.sqlValid
  /\ (writeModeCall /\ trim(input.sql.v) = << >>)
       => (~call.sqlValid /\ response.error = ErrEmpty)

C3_Witness ==
  /\ pc = "executing"
  /\ env.READ_ONLY = "false"
  /\ input.sql.v = <<"U","P","D","A","T","E"," ","t"," ","S","E","T"," ","x","=","1"," ","W","H","E","R","E"," ","i","d","=","5">>
  /\ call.sqlValid
  /\ executed = << input.sql.v >>

(***************************************************************************)
(* Vocabulary of the substitution properties.                              *)
(***************************************************************************)
\* the parameters of the current call
givenParameters == IF input.parameters.t = "array" THEN input.parameters.v ELSE << >>

\* the statement text the parameters are substituted into
baseSql == IF call.readOnly THEN call.paginatedSql ELSE trim(input.sql.v)

\* the SQL literal of a string: quoted, each quote and each backslash
\* doubled, each NUL dropped
RECURSIVE quotedBody(_)
quotedBody(v) ==
  IF v = << >> THEN << >>
  ELSE (CASE Head(v) = "'" -> <<"'", "'">>
          [] Head(v) = "\\" -> <<"\\", "\\">>
          [] Head(v) = "NUL" -> << >>
          [] OTHER -> << Head(v) >>) \o quotedBody(Tail(v))

\* the literal form of a parameter that is null, a boolean, a finite number
\* or a string
literalOf(p) ==
  CASE p.t = "null" -> <<"N","U","L","L">>
    [] p.t = "bool" -> IF p.v THEN <<"T","R","U","E">> ELSE <<"F","A","L","S","E">>
    [] p.t = "num" -> numToString(p.v)
    [] OTHER -> <<"'">> \o quotedBody(p.v) \o <<"'">>

hasLiteral(p) == p.t \in {"null", "bool", "num", "str"}

\* the index k in 1..n of the placeholder $k standing as a whole token at
\* position i of text (not followed by a letter, digit or underscore), 0 when
\* there is none
placeholderIndexAt(text, i, n) ==
  LET ks == {k \in 1..n :
               /\ i + Len(placeholder(k)) - 1 <= Len(text)
               /\ SubSeq(text, i, i + Len(placeholder(k)) - 1) = placeholder(k)
               /\ (i + Len(placeholder(k)) > Len(text)
                     \/ ~isWordChar(text[i + Len(placeholder(k))]))}
  IN  IF ks = {} THEN 0 ELSE CHOOSE k \in ks : TRUE

\* text with every whole-token placeholder $k, k in 1..Len(parameters),
\* replaced by the literal of the k-th parameter, and nothing else changed
withLiterals(text, parameters) ==
  LET RECURSIVE go(_)
      go(i) ==
        IF i > Len(text) THEN << >>
        ELSE LET k == placeholderIndexAt(text, i, Len(parameters))
             IN  IF k > 0
                   THEN literalOf(parameters[k]) \o go(i + Len(placeholder(k)))
                   ELSE << text[i] >> \o go(i + 1)
  IN  go(1)

isNonFiniteNumber(p) == p.t = "nonfinite"

\* C4: if a numeric parameter of a request is not finite (NaN, +Infinity,
\* -Infinity), queryTool returns an error response and the statement is
\* never executed, on the read path and on the write path.
C4_NonFiniteNeverExecuted ==
  (/\ pc # "idle"
   /\ \E i \in DOMAIN givenParameters : isNonFiniteNumber(givenParameters[i]))
  => (/\ pc = "returned"
      /\ "error" \in response.has
      /\ executed = << >>)

\* C5: the text inserted for the placeholder of a parameter is exactly the
\* literal form of the parameter: NULL, TRUE or FALSE, the decimal string,
\* or the quoted string with quotes and backslashes doubled and NULs
\* removed, for every string value (also one that contains '$').
C5_InsertedTextIsLiteral ==
  (/\ pc = "executing"
   /\ Len(givenParameters) = 1
   /\ hasLiteral(givenParameters[1]))
  => executed[1] = withLiterals(baseSql, givenParameters)

\* C6: every whole-token occurrence of $i, 1 <= i <= n, is replaced by the
\* literal of the i-th parameter; a $i that is the prefix of a longer
\* placeholder is not replaced; placeholders above n are left untouched.
C6_WholeTokenPlaceholders ==
  (/\ pc = "executing"
   /\ \A i \in DOMAIN givenParameters : hasLiteral(givenParameters[i]))
  => executed[1] = withLiterals(baseSql, givenParameters)

isOtherType(p) == p.t \notin {"null", "str", "num", "nonfinite", "bool"}

\* C7: if a parameter at any position is not null, a string, a number or a
\* boolean, the request is rejected with an error before any placeholder is
\* substituted and nothing is executed.
C7_OtherTypesRejectedUpFront ==
  (/\ pc # "idle"
   /\ \E i \in DOMAIN givenParameters : isOtherType(givenParameters[i]))
  => (/\ pc = "returned"
      /\ response.has = {"error"}
      /\ response.error # ""
      /\ call.replaceCalls = 0
      /\ executed = << >>)

C7_Witness ==
  /\ pc = "returned"
  /\ Len(givenParameters) = 2
  /\ hasLiteral(givenParameters[1])
  /\ isOtherType(givenParameters[2])
  /\ response.has = {"error"}
  /\ executed = << >>

(***************************************************************************)
(* Vocabulary of the pagination properties.                                *)
(***************************************************************************)
wLIMIT == <<"L","I","M","I","T">>
wOFFSET == <<"O","F","F","S","E","T">>

\* LIMIT or OFFSET occurs in s as a token (a whole word, any letter case)
hasLimitOrOffsetToken(s) == upperWords(s) \cap {wLIMIT, wOFFSET} # {}

\* the text LIMIT or OFFSET occurs anywhere in s, in any letter case
mentionsLimitOrOffset(s) == upperContains(s, wLIMIT) \/ upperContains(s, wOFFSET)

usesAggregate(s) ==
  \E a \in { <<"C","O","U","N","T","(">>, <<"S","U","M","(">>, <<"A","V","G","(">>,
             <<"M","A","X","(">>, <<"M","I","N","(">> } : upperContains(s, a)

hasGroupBy(s) == upperContains(s, <<"G","R","O","U","P"," ","B","Y">>)

singleRowAggregate(s) == usesAggregate(s) /\ ~hasGroupBy(s)

\* the requested value of an optional number, d when it is absent
requestedOr(x, d) == IF x.t = "num" THEN x.v ELSE d

effectivePageSize ==
  LET r == requestedOr(input.pageSize, cfg.DEFAULT_PAGE_SIZE)
  IN  IF r <= cfg.MAX_PAGE_SIZE THEN r ELSE cfg.MAX_PAGE_SIZE

\* the trimmed statement followed by LIMIT p and, iff the requested offset
\* is greater than 0, OFFSET o
withLimitAndOffset ==
  trim(input.sql.v) \o <<" ","L","I","M","I","T"," ">> \o numToString(effectivePageSize)
    \o (IF requestedOr(input.offset, 0) > 0
          THEN <<" ","O","F","F","S","E","T"," ">> \o numToString(requestedOr(input.offset, 0))
          ELSE << >>)

\* a read-only statement without parameters has been sent to the backend
readStatementSent ==
  /\ pc = "executing"
  /\ call.readOnly
  /\ givenParameters = << >>

\* C8: a read-only statement that contains neither a LIMIT nor an OFFSET
\* token and is not a single-row aggregate is executed as the trimmed
\* original followed by LIMIT p, p = min(requested page size or default,
\* maximum), followed by OFFSET o iff the requested offset o is > 0.
C8_LimitOffsetAppended ==
  (/\ readStatementSent
   /\ ~hasLimitOrOffsetToken(input.sql.v)
   /\ ~singleRowAggregate(input.sql.v))
  => executed = << withLimitAndOffset >>

\* C9: a statement that contains the token LIMIT or the token OFFSET is
\* returned unchanged by the rewriter, with the page size reported as the
\* supplied value or the default and the offset as the supplied value or 0;
\* the rewriter does not take this branch when LIMIT/OFFSET does not occur
\* as a token.
C9_UnchangedIffLimitOffsetToken ==
  (pc # "idle" /\ call.readOnly)
  => /\ hasLimitOrOffsetToken(input.sql.v)
          => (/\ call.paginatedSql = trim(input.sql.v)
              /\ call.actualPageSize = requestedOr(input.pageSize, cfg.DEFAULT_PAGE_SIZE)
              /\ call.actualOffset = requestedOr(input.offset, 0))
     /\ ~hasLimitOrOffsetToken(input.sql.v) => call.branch # "unchanged"

rowsReturned == pc = "returned" /\ "pagination" \in response.has

\* C11 as stated: for every configuration, the page size reported in the
\* response never exceeds the configured maximum, and the LIMIT applied by
\* the rewriter is min(requested page size or default, maximum).
C11_AsStated ==
  /\ rowsReturned => response.pagination.pageSize <= cfg.MAX_PAGE_SIZE
  /\ (readStatementSent /\ call.branch = "paginated")
       => executed = << withLimitAndOffset >>

\* C11 as amended: when the rewriter does not pass the statement through
\* (the text LIMIT/OFFSET does not occur in it), the effective page size,
\* as applied in LIMIT and as reported in the response, is min(requested
\* page size or default, maximum) and so never exceeds the configured
\* maximum; for a statement passed through unchanged the reported page size
\* is the requested value or the default, not clamped, and never exceeds
\* 500 under the default configuration.
C11_ClampedUnlessPassedThrough ==
  /\ (rowsReturned /\ call.branch # "unchanged")
       => /\ response.pagination.pageSize = effectivePageSize
          /\ response.pagination.pageSize <= cfg.MAX_PAGE_SIZE
  /\ (readStatementSent /\ call.branch = "paginated")
       => executed = << withLimitAndOffset >>
  /\ (rowsReturned /\ call.branch = "unchanged")
       => response.pagination.pageSize
            = requestedOr(input.pageSize, cfg.DEFAULT_PAGE_SIZE)
  /\ (rowsReturned /\ cfg = DefaultCfg)
       => response.pagination.pageSize <= MAX_PAGE_SIZE_DEFAULT

C11_Witness ==
  /\ rowsReturned
  /\ cfg = SmallMaxCfg
  /\ input.pageSize = Num(10)
  /\ call.branch = "paginated"
  /\ response.pagination.pageSize = 5

\* C12 as stated: in every Rows response hasMore is true if and only if the
\* number of returned rows equals min(requested page size or default,
\* maximum page size).
C12_AsStated ==
  rowsReturned => (response.pagination.hasMore <=> response.rowCount = effectivePageSize)

\* C12 as amended: in every Rows response hasMore is true if and only if the
\* number of returned rows equals the reported pagination.pageSize; that
\* page size is min(requested page size or default, maximum) unless the
\* statement was passed through unchanged, and always under the default
\* configuration.
C12_HasMoreIffPageFilled ==
  rowsReturned
  => /\ response.pagination.hasMore <=> response.rowCount = response.pagination.pageSize
     /\ (call.branch # "unchanged" \/ cfg = DefaultCfg)
          => (response.pagination.hasMore <=> response.rowCount = effectivePageSize)

C12_Witness ==
  /\ rowsReturned
  /\ cfg = DefaultCfg
  /\ input.pageSize = Num(1)
  /\ response.rowCount = 1
  /\ response.pagination.hasMore

(***************************************************************************)
(* Shape of the responses.                                                 *)
(***************************************************************************)
\* the backend has answered the statement of the current call successfully
executionSucceeded == pc = "returned" /\ call.result # NoResult

RowsShape == {"rows", "rowCount", "pagination"}
AffectedShape == {"rowCount"}
FailureShapes == {{"error"}, {"error", "code", "hint"}}

\* C13: when a statement accepted by the safety gate has been executed
\* successfully, the response has the Rows shape, with rowCount the number of
\* rows, if and only if the original statement, trimmed, starts with SELECT,
\* WITH or EXPLAIN in any letter case; otherwise it has the Affected shape
\* with rowCount the affected-row count of the backend, 0 when there is none.
C13_ShapeFollowsOriginalStatement ==
  executionSucceeded
  => /\ call.sqlValid
     /\ response.has = RowsShape <=> startsLikeQuery(input.sql.v)
     /\ startsLikeQuery(input.sql.v)
          => /\ response.rows = call.result.rows
             /\ response.rowCount = call.result.rows
     /\ ~startsLikeQuery(input.sql.v)
          => /\ response.has = AffectedShape
             /\ response.rowCount = IF call.result.numAffectedRows >= 0
                                      THEN call.result.numAffectedRows
                                      ELSE 0

C13_Witness ==
  /\ executionSucceeded
  /\ env.READ_ONLY = "false"
  /\ ~startsLikeQuery(input.sql.v)
  /\ call.result.numAffectedRows = 1
  /\ response.has = AffectedShape
  /\ response.rowCount = 1

\* C14: every response of queryTool is of exactly one variant: rows with
\* rowCount and pagination, or rowCount alone, or an error; a response with
\* an error carries neither rows nor rowCount, and a response with rows
\* carries no error.
C14_ExactlyOneVariant ==
  pc = "returned"
  => /\ response.has \in {RowsShape, AffectedShape} \cup FailureShapes
     /\ "error" \in response.has
          => /\ response.has \cap {"rows", "rowCount", "pagination"} = {}
             /\ response.error # ""
     /\ "rows" \in response.has
          => /\ "error" \notin response.has
             /\ {"rowCount", "pagination"} \subseteq response.has

C14_Witness ==
  /\ pc = "returned"
  /\ executed # << >>
  /\ call.error # Undefined
  /\ response.has = {"error", "code", "hint"}
  /\ response.code = "SYNTAX_ERROR"

(***************************************************************************)
(* Classification of backend errors.                                       *)
(***************************************************************************)
\* text occurs in msg, letter case respected
containsText(msg, text) ==
  \E i \in 1..Len(msg) :
    /\ i + Len(text) - 1 <= Len(msg)
    /\ \A j \in 1..Len(text) : msg[i + j - 1] = text[j]

\* the rules in their order: a rule matches a message that contains every
\* text of one of its alternatives
ErrorRules ==
  << [kind |-> "SYNTAX_ERROR", alts |-> {{<<"s","y","n","t","a","x"," ","e","r","r","o","r">>}}],
     [kind |-> "PERMISSION_DENIED", alts |-> {{<<"p","e","r","m","i","s","s","i","o","n"," ","d","e","n","i","e","d">>}, {<<"a","c","c","e","s","s"," ","d","e","n","i","e","d">>}}],
     [kind |-> "DUPLICATE_KEY", alts |-> {{<<"d","u","p","l","i","c","a","t","e"," ","k","e","y"," ","v","a","l","u","e">>}, {<<"u","n","i","q","u","e"," ","c","o","n","s","t","r","a","i","n","t">>}}],
     [kind |-> "FOREIGN_KEY_VIOLATION", alts |-> {{<<"f","o","r","e","i","g","n"," ","k","e","y"," ","c","o","n","s","t","r","a","i","n","t">>}}],
     [kind |-> "RELATION_NOT_FOUND", alts |-> {{<<"r","e","l","a","t","i","o","n">>, <<"d","o","e","s"," ","n","o","t"," ","e","x","i","s","t">>}}],
     [kind |-> "COLUMN_NOT_FOUND", alts |-> {{<<"c","o","l","u","m","n">>, <<"d","o","e","s"," ","n","o","t"," ","e","x","i","s","t">>}}],
     [kind |-> "TIMEOUT", alts |-> {{<<"t","i","m","e","o","u","t">>}, {<<"c","a","n","c","e","l","l","e","d">>}}] >>

ruleMatches(rule, msg) ==
  \E alt \in rule.alts : \A text \in alt : containsText(msg, text)

\* the kind of the first rule that matches msg, DATABASE_ERROR if none does
kindOfMessage(msg) ==
  LET matching == {i \in DOMAIN ErrorRules : ruleMatches(ErrorRules[i], msg)}
  IN  IF matching = {} THEN "DATABASE_ERROR"
      ELSE ErrorRules[CHOOSE i \in matching : \A k \in matching : i <= k].kind

\* the execution of the current call failed with an Error whose message is
\* call.error.v, or with a value that is no Error
executionFailed == pc = "returned" /\ executed # << >> /\ call.error # Undefined

\* C15: when the execution fails, the error kind returned is that of the
\* first rule, in the order SYNTAX_ERROR, PERMISSION_DENIED, DUPLICATE_KEY,
\* FOREIGN_KEY_VIOLATION, RELATION_NOT_FOUND, COLUMN_NOT_FOUND, TIMEOUT, that
\* matches the backend message, and DATABASE_ERROR when none matches; the
\* response carries one kind and a non-empty hint; a message containing
\* "duplicate key value" that matches no earlier rule gives DUPLICATE_KEY.
C15_FirstMatchingRuleWins ==
  (executionFailed /\ call.error.t = "str")
  => /\ response.has = {"error", "code", "hint"}
     /\ response.code = kindOfMessage(call.error.v)
     /\ response.hint # ""
     /\ response.error # ""
     /\ call.error.v = <<"d","u","p","l","i","c","a","t","e"," ","k","e","y"," ","v","a","l","u","e">> => response.code = "DUPLICATE_KEY"

C15_Witness ==
  /\ executionFailed
  /\ call.error = Str(<<"t","i","m","e","o","u","t","s","y","n","t","a","x"," ","e","r","r","o","r">>)
  /\ response.code = "SYNTAX_ERROR"
  /\ response.hint # ""

\* the safety gate refused the statement of the current call
refusedBySafetyGate == pc = "returned" /\ call.inputValid /\ ~call.sqlValid

\* the current call was given a parameter of a wrong type or a number that
\* is not finite
hasBadParameter ==
  \E i \in DOMAIN givenParameters :
    isOtherType(givenParameters[i]) \/ isNonFiniteNumber(givenParameters[i])

\* C16: every Failure response to a request that passed input validation
\* carries an error kind; a statement refused by
\* the safety gate is reported with kind SAFETY_REJECTED, and a request with
\* a parameter of a wrong type or a non-finite number is reported with kind
\* PARAMETER_ERROR.
C16_FailuresCarryKind ==
  /\ (pc = "returned" /\ call.inputValid /\ "error" \in response.has)
       => ("code" \in response.has /\ response.code # "")
  /\ refusedBySafetyGate => response.code = "SAFETY_REJECTED"
  /\ (pc = "returned" /\ hasBadParameter /\ response.error = ErrInvalidParamType)
       => response.code = "PARAMETER_ERROR"

(***************************************************************************)
(* The call-tool request handler.                                          *)
(***************************************************************************)
\* the handler has received a request for one of its tools whose arguments
\* violate the tool's input schema
invalidArgumentsReceived ==
  /\ handler.pc # "idle"
  /\ handler.name \in ToolNames
  /\ ~toolInputValid(handler.name, handler.args)

\* C17: for every tool, a call whose arguments violate the tool's input
\* schema is answered with an error response of kind VALIDATION_ERROR before
\* the tool function runs: no tool function is invoked, queryTool does not
\* start, and no statement is executed.
C17_InvalidArgumentsStopAtHandler ==
  invalidArgumentsReceived
  => /\ handler.pc = "replied"
     /\ handler.reply.kind = "response"
     /\ handler.reply.isError
     /\ handler.reply.code = "VALIDATION_ERROR"
     /\ handler.invoked = ""
     /\ pc = "idle"
     /\ call = NoCall
     /\ executed = << >>

C17_Witness ==
  /\ invalidArgumentsReceived
  /\ handler.name = "describe_table"
  /\ handler.args.t = "arguments"
  /\ handler.args.v.schema = Str(<<"p","u","b","l","i","c">>)
  /\ handler.args.v.table = Str(<<"a",";","b">>)
  /\ handler.reply.code = "VALIDATION_ERROR"

\* C18: for every call-tool request (any tool name, also an unknown one,
\* any arguments, any failure of the database or of the connection setup)
\* the handler ends with a structured response and queryTool with a
\* response object: no exception leaves the handler or queryTool.
C18_NoExceptionLeavesHandler ==
  /\ handler.reply.kind # "thrown"
  /\ handler.pc = "replied"
       => /\ handler.reply.kind = "response"
          /\ handler.reply.result # {}
          /\ handler.reply.isError <=> handler.reply.code # ""
  /\ pc = "returned" => response.has # {}
  /\ (handler.pc = "replied" /\ handler.name \notin ToolNames)
       => handler.reply.code = "TOOL_EXECUTION_ERROR"
  /\ (handler.pc = "replied" /\ handler.invoked = "query" /\ call.sqlValid
        /\ env.DB_PASSWORD = "unset")
       => /\ handler.reply = createSafeToolResponse({"error", "code", "hint"})
          /\ response.code = "DATABASE_ERROR"

C18_Witness ==
  /\ handler.pc = "replied"
  /\ handler.invoked = "query"
  /\ env.DB_PASSWORD = "unset"
  /\ call.error = Str(msgPasswordRequired)
  /\ handler.reply.kind = "response"
  /\ response.code = "DATABASE_ERROR"

(***************************************************************************)
(* Executions per request.                                                 *)
(***************************************************************************)
\* C19: for every query request the backend is asked to execute a statement
\* at most once: a failed execution is reported at once as a Failure and the
\* statement is not executed again, and a request rejected by input
\* validation or by the safety gate causes no execution.
C19_AtMostOneExecution ==
  /\ Len(executed) <= 1
  /\ (pc # "idle" /\ ~(call.inputValid /\ call.sqlValid)) => executed = << >>
  /\ executionFailed
       => /\ Len(executed) = 1
          /\ response.has = {"error", "code", "hint"}
  /\ pc = "executing" => Len(executed) = 1

C19_Witness ==
  /\ executionFailed
  /\ ~call.readOnly
  /\ Len(executed) = 1
  /\ response.code = "DATABASE_ERROR"

(***************************************************************************)
(* The configuration and the environment.  MAX_PAGE_SIZE and               *)
(* DEFAULT_PAGE_SIZE are constants of the module, evaluated when it loads; *)
(* isReadOnlyMode reads process.env at each of its calls.  A variable of   *)
(* the environment is a string, << >> when it is unset or empty (both are  *)
(* falsy for ||).                                                          *)
(***************************************************************************)
NaN == "NaN"

digitValue(c) == (CHOOSE i \in 1..10 : Digits[i] = c) - 1

isDigit(c) == c \in Range(Digits)

RECURSIVE parseDigits(_, _, _)
parseDigits(s, i, acc) ==
  IF i > Len(s) \/ ~isDigit(s[i])
    THEN acc
    ELSE parseDigits(s, i + 1, acc * 10 + digitValue(s[i]))

\* parseInt(s, 10) of a string without white space or sign: the value of its
\* leading digits, NaN when it has none
parseInt(s) ==
  IF Len(s) = 0 \/ ~isDigit(s[1]) THEN NaN ELSE parseDigits(s, 1, 0)

\* a || b on strings
orElse(a, b) == IF Len(a) = 0 THEN b ELSE a

\* the constants MAX_PAGE_SIZE and DEFAULT_PAGE_SIZE as the module computes
\* them from the environment e it is loaded in
moduleConstants(e) ==
  [MAX_PAGE_SIZE |-> parseInt(orElse(e.MAX_PAGE_SIZE, <<"5","0","0">>)),
   DEFAULT_PAGE_SIZE |-> parseInt(orElse(e.DEFAULT_PAGE_SIZE, <<"1","0","0">>))]

\* the environments a process is started in, page sizes included
PagedEnvs(readOnlyValues, maxValues, defaultValues) ==
  [READ_ONLY : readOnlyValues, DB_PASSWORD : {"set"},
   MAX_PAGE_SIZE : maxValues, DEFAULT_PAGE_SIZE : defaultValues]

\* code of the process assigns process.env between two requests; the
\* constants of the module are not evaluated again
SetEnv(envs) ==
  /\ pc = "idle"
  /\ handler.pc = "idle"
  /\ \E e \in envs : e # env /\ env' = e
  /\ UNCHANGED <<startEnv, cfg, pc, input, call, executed, response, handler, dbm>>

(***************************************************************************)
(* SpecEnv: requests of a process whose environment is assigned between    *)
(* them.                                                                   *)
(***************************************************************************)
EnvInputs ==
  [sql : {Str(s) : s \in ErrStatements}, parameters : {Undefined},
   pageSize : {Undefined, Num(2)}, offset : {Undefined}]

EnvEnvs == PagedEnvs({"unset", "false"}, {<< >>, <<"1">>}, {<< >>, <<"1">>})

InitEnv == \E e \in EnvEnvs : InitWith({e}, {moduleConstants(e)})

NextEnv ==
  \/ QueryTool(EnvInputs)
  \/ SetEnv(EnvEnvs)
  \/ ExecuteResolves
  \/ ExecuteRejects
  \/ Return

SpecEnv == InitEnv /\ [][NextEnv]_vars

\* the outcome queryTool has for the current arguments under the
\* configuration the process started with
startOutcome == queryToolBegin(input, startEnv, moduleConstants(startEnv))

\* C20: the read-only flag and the maximum and default page size are read
\* once at process start: whatever is assigned to READ_ONLY, MAX_PAGE_SIZE or
\* DEFAULT_PAGE_SIZE afterwards, a request gets the safety decision and the
\* pagination that the same arguments get under the configuration the
\* process started with.
C20_DecisionsFollowStartConfiguration ==
  (pc # "idle" /\ call.inputValid) =>
     /\ call.sqlValid = startOutcome.locals.sqlValid
     /\ call.branch = startOutcome.locals.branch
     /\ call.paginatedSql = startOutcome.locals.paginatedSql
     /\ call.actualPageSize = startOutcome.locals.actualPageSize
     /\ call.actualOffset = startOutcome.locals.actualOffset

\* the part of C20 that the module's constants give: the pagination of a
\* statement that passed the gate is the one of the start configuration
C20_PaginationFollowsStartConfiguration ==
  (pc # "idle" /\ call.sqlValid) =>
     /\ cfg = moduleConstants(startEnv)
     /\ LET pg == applyPagination(trim(input.sql.v), input.pageSize, input.offset,
                                  moduleConstants(startEnv))
        IN  call.readOnly =>
              /\ call.paginatedSql = pg.sql
              /\ call.actualPageSize = pg.actualPageSize

C20_PageSizeChanged ==
  /\ pc # "idle"
  /\ call.readOnly
  /\ call.branch = "paginated"
  /\ env.MAX_PAGE_SIZE # startEnv.MAX_PAGE_SIZE
  /\ env.DEFAULT_PAGE_SIZE # startEnv.DEFAULT_PAGE_SIZE
  /\ call.actualPageSize = 1

(***************************************************************************)
(* The actions of the database module.                                     *)
(***************************************************************************)
\* a call of the exported getDb()
GetDb ==
  /\ canGetDb(dbm)
  /\ dbm' = afterGetDb(dbm, env)
  /\ UNCHANGED <<env, startEnv, cfg, pc, input, call, executed, response, handler>>

\* close() completes for the call c
closeCompletes(d, c) ==
  [d EXCEPT !.closes[c].pc = "done",
            !.closed = IF d.closes[c].db = 0 THEN d.closed ELSE d.closed \cup {d.closes[c].db},
            !.got = 0]

\* the second statement of close(): end the pool unless it is null or ended
closePool(d, c) ==
  IF d.pool # 0 /\ d.pool \notin d.ended
    THEN [d EXCEPT !.ended = d.ended \cup {d.pool},
                   !.closes[c].pc = "end", !.closes[c].pool = d.pool]
    ELSE closeCompletes(d, c)

\* close() from its entry to its first await or to its end
close(d, c) ==
  IF d.db # 0
    THEN [d EXCEPT !.destroyCalls[d.db] = d.destroyCalls[d.db] + 1,
                   !.closes[c] = [pc |-> "destroy", db |-> d.db, pool |-> 0, hadDb |-> TRUE]]
    ELSE closePool(d, c)

\* a call of the exported closeDb(): getInstance() may throw, which rejects
\* the promise of closeDb
CloseDb(c) ==
  /\ dbm.closes[c].pc = "idle"
  /\ dbm' = IF getInstanceThrows(dbm, env)
              THEN [dbm EXCEPT !.closes[c].pc = "threw"]
              ELSE close([getInstance(dbm) EXCEPT !.got = 0], c)
  /\ UNCHANGED <<env, startEnv, cfg, pc, input, call, executed, response, handler>>

\* await this.db.destroy() resolves: this.db = null, then the pool; destroy
\* ends the pool when the driver of the instance had been initialised
DestroyResolves(c) ==
  /\ dbm.closes[c].pc = "destroy"
  /\ \E endsPool \in BOOLEAN :
       dbm' = closePool([dbm EXCEPT
                           !.db = 0,
                           !.ended = IF endsPool THEN dbm.ended \cup {dbm.closes[c].db}
                                                 ELSE dbm.ended], c)
  /\ UNCHANGED <<env, startEnv, cfg, pc, input, call, executed, response, handler>>

\* await this.pool.end() resolves: this.pool = null
PoolEndResolves(c) ==
  /\ dbm.closes[c].pc = "end"
  /\ dbm' = closeCompletes([dbm EXCEPT !.pool = 0], c)
  /\ UNCHANGED <<env, startEnv, cfg, pc, input, call, executed, response, handler>>

\* the caller of closeDb has taken its outcome
CloseDbReturns(c) ==
  /\ dbm.closes[c].pc \in {"done", "threw"}
  /\ dbm' = [dbm EXCEPT !.closes[c] = NoClose]
  /\ UNCHANGED <<env, startEnv, cfg, pc, input, call, executed, response, handler>>

\* no closeDb call is in flight
noCloseInFlight == \A c \in Closers : dbm.closes[c].pc = "idle"

(***************************************************************************)
(* SpecDbSeq: the callers await closeDb before the next call of the        *)
(* module, as the tests and shutdown do.  SpecDb: getDb and closeDb are    *)
(* called at any time.                                                     *)
(***************************************************************************)
InitDb == InitWith(Envs({"unset"}, {"set", "unset"}), {DefaultCfg})

NextDbSeq ==
  \/ noCloseInFlight /\ GetDb
  \/ noCloseInFlight /\ QueryTool(ErrInputs)
  \/ ExecuteResolves
  \/ ExecuteRejects
  \/ Return
  \/ \E c \in Closers : noCloseInFlight /\ CloseDb(c)
  \/ \E c \in Closers : DestroyResolves(c)
  \/ \E c \in Closers : PoolEndResolves(c)
  \/ \E c \in Closers : CloseDbReturns(c)

SpecDbSeq == InitDb /\ [][NextDbSeq]_vars

NextDb ==
  \/ GetDb
  \/ \E c \in Closers : CloseDb(c)
  \/ \E c \in Closers : DestroyResolves(c)
  \/ \E c \in Closers : PoolEndResolves(c)
  \/ \E c \in Closers : CloseDbReturns(c)

SpecDb == InitDb /\ [][NextDb]_vars

\* the instances that were created and on which destroy() was not called
liveInstances == {i \in 1..dbm.created : dbm.destroyCalls[i] = 0}

\* C21: when closeDb calls are completed before the next call, two getDb
\* calls with no closeDb between them return the same instance, the first
\* getDb after a completed closeDb returns an instance that is new and is
\* not one a closeDb has closed, and at most one instance is live.
C21_OneInstanceUntilClosed ==
  [][ /\ (dbm.got # 0 /\ dbm'.got # 0) => dbm'.got = dbm.got
      /\ (dbm.got = 0 /\ dbm'.got # 0) =>
            /\ dbm'.got \notin dbm.closed
            /\ dbm'.got = dbm.created + 1
      /\ Cardinality(liveInstances') <= 1 ]_vars

C21_Witness ==
  /\ dbm.got = 2
  /\ dbm.closed = {1}
  /\ dbm.destroyCalls[1] = 1
  /\ noCloseInFlight

(***************************************************************************)
(* SpecValid: requests whose properties are well or ill formed, with a     *)
(* statement that the pagination rewriter does not see.                    *)
(***************************************************************************)
ValidSqlValues ==
  {Undefined, Num(1), Str(<< >>),
   Str(<<"I","N","S","E","R","T"," ","I","N","T","O"," ","t"," ","V","A","L","U","E","S"," ","(","1",")">>)}

ValidPageSizes ==
  {Undefined, Num(0), Num(1), Num(PAGE_SIZE_MAX), Num(PAGE_SIZE_MAX + 1),
   Frac(0), Frac(1), Frac(PAGE_SIZE_MAX - 1), Frac(PAGE_SIZE_MAX),
   NonFinite("Infinity"), NonFinite("NaN"), Str(<<"1">>)}

ValidOffsets ==
  {Undefined, Num(0 - 1), Num(0), Num(1), Frac(0 - 1), Frac(0),
   NonFinite("Infinity"), NonFinite("-Infinity")}

ValidParameters ==
  {Undefined, Array(<< >>), Array(<<Num(5)>>), Array(<<Frac(1)>>),
   Array(<<Object>>), Array(<<NonFinite("NaN")>>), Array(<<Null, Bool(TRUE)>>), Str(<<"1">>)}

ValidInputs ==
  [sql : ValidSqlValues, parameters : ValidParameters,
   pageSize : ValidPageSizes, offset : ValidOffsets]

InitValid == InitWith(Envs({"unset", "false"}, {"set"}), {DefaultCfg})

NextValid ==
  \/ QueryTool(ValidInputs)
  \/ ExecuteResolves
  \/ ExecuteRejects
  \/ Return

SpecValid == InitValid /\ [][NextValid]_vars

\* an integer between lo and hi
isIntegerIn(x, lo, hi) == x.t = "num" /\ x.v >= lo /\ x.v <= hi

\* C22: a request is accepted by the input validator only if its statement
\* has 1 to 50000 characters, pageSize (when present) is an integer in
\* [1, 500], offset (when present) is an integer >= 0 and every parameter is
\* a string, number, boolean or null; any other request gets a validation
\* error before the safety gate has run.
C22_AcceptsOnlyWellFormed ==
  pc # "idle" =>
    /\ call.inputValid =>
         /\ input.sql.t = "str"
         /\ Len(input.sql.v) >= 1 /\ Len(input.sql.v) <= SQL_MAX_LENGTH
         /\ input.pageSize.t = "undefined"
              \/ isIntegerIn(input.pageSize, PAGE_SIZE_MIN, PAGE_SIZE_MAX)
         /\ input.offset.t = "undefined"
              \/ (input.offset.t = "num" /\ input.offset.v >= 0)
         /\ input.parameters.t \in {"undefined", "array"}
         /\ input.parameters.t = "array" =>
              \A i \in DOMAIN input.parameters.v :
                 typeOf(input.parameters.v[i]) \in {"string", "number", "boolean"}
                   \/ input.parameters.v[i] = Null
    /\ ~call.inputValid =>
         /\ pc = "returned"
         /\ response.has = {"error"}
         /\ response.error = ValidationFailed(validateInput(input).error)
         /\ ~call.sqlValid
         /\ executed = << >>

\* the statement's first keyword is INSERT, UPDATE or DELETE
isDataModifying(s) ==
  \/ startsWithWord(s, <<"I","N","S","E","R","T">>)
  \/ startsWithWord(s, <<"U","P","D","A","T","E">>)
  \/ startsWithWord(s, <<"D","E","L","E","T","E">>)

\* a call with a data-modifying statement has returned and the backend, if
\* it was called, did not reject
dataModifyingReturned ==
  /\ pc = "returned"
  /\ call.inputValid
  /\ isDataModifying(input.sql.v)
  /\ ~hasDenylistedWord(input.sql.v)
  /\ call.error = Undefined

\* the numAffectedRows reported by the backend, 0 when it reports none
affectedRows == IF call.result.numAffectedRows > 0 THEN call.result.numAffectedRows ELSE 0

rejectedWithNonError ==
  /\ pc = "returned"
  /\ executed # << >>
  /\ call.error # Undefined
  /\ call.error.t # "str"

introspectionReturned ==
  /\ handler.invoked \in IntrospectionTools
  /\ handler.tool.pc = "returned"

\* C25: an introspection tool returns either its data array and no error
\* field or an error field and no data array; when its catalog query fails
\* the error is the message of the Error thrown, and 'Unknown error
\* occurred' when the value thrown is not an Error; the safety gate, the
\* pagination rewriter and the parameter substitution of queryTool are not
\* involved.
C25_IntrospectionDataOrError ==
  introspectionReturned =>
    /\ handler.tool.has \in {{"data"}, {"error"}}
    /\ handler.tool.has = {"error"} <=> handler.tool.thrown # Undefined
    /\ handler.tool.thrown.t = "str" => handler.tool.error = handler.tool.thrown.v
    /\ handler.tool.thrown = Object =>
         handler.tool.error =
           <<"U","n","k","n","o","w","n"," ","e","r","r","o","r"," ","o","c","c","u","r","r","e","d">>
    /\ pc = "idle"
    /\ call = NoCall
    /\ executed = << >>
    /\ response = EmptyResponse
    /\ handler.pc = "replied" =>
         (handler.reply.kind = "response" /\ handler.reply.result = handler.tool.has)

C25_Witness ==
  /\ introspectionReturned
  /\ handler.invoked = "list_indexes"
  /\ env.READ_ONLY = "unset"
  /\ handler.tool.thrown = Object
  /\ handler.tool.has = {"error"}
  /\ handler.pc = "replied"

(***************************************************************************)
(* SpecSmuggle: read-only mode, statements that start like a query and     *)
(* carry data-modifying keywords further on.                               *)
(***************************************************************************)
SmuggleHeads ==
  { <<"W","I","T","H"," ","x"," ","A","S"," ","(">>,
    <<"S","E","L","E","C","T"," ","1",";"," ">>,
    <<"e","x","p","l","a","i","n"," ">>,
    <<"S","E","L","E","C","T"," ","d","e","l","e","t","e","d"," ">>,
    <<"D","E","L","E","T","E"," ","F","R","O","M"," ","t"," ">> }

SmuggleTails ==
  { <<"D","E","L","E","T","E"," ","F","R","O","M"," ","t">>,
    <<"i","n","s","e","r","t"," ","i","n","t","o"," ","t"," ","v","a","l","u","e","s"," ","(","1",")">>,
    <<"U","P","D","A","T","E"," ","t"," ","S","E","T"," ","x","=","1">>,
    <<")"," ","S","E","L","E","C","T"," ","1">>,
    <<" ","F","R","O","M"," ","u","p","d","a","t","e","s">>,
    <<" ">> }

SmuggleInputs ==
  InputsOver(HeadedStatements(SmuggleHeads, SmuggleTails, MaxStmtTokens), {Undefined},
             {Undefined}, {Undefined, Num(2)})

InitSmuggle == InitWith(Envs({"unset", "true"}, {"set"}), {DefaultCfg})

NextSmuggle ==
  \/ QueryTool(SmuggleInputs)
  \/ ExecuteResolves
  \/ ExecuteRejects
  \/ Return

SpecSmuggle == InitSmuggle /\ [][NextSmuggle]_vars

DataModifyingWords ==
  { <<"I","N","S","E","R","T">>, <<"U","P","D","A","T","E">>, <<"D","E","L","E","T","E">> }

\* C26: in read-only mode no statement that has INSERT, UPDATE or DELETE as
\* a whole word is passed to the backend by queryTool, whatever its first
\* keyword is.
C26_ReadOnlyExecutesNoDataModification ==
  (env.READ_ONLY # "false" /\ executed # << >>) =>
     upperWords(executed[1]) \cap DataModifyingWords = {}

(***************************************************************************)
(* Re-scanning of substituted text.  The forEach loop applies one replace  *)
(* per parameter to the text the previous replace produced.                *)
(***************************************************************************)
\* the replace call inserts the literal of p unchanged: the literal holds
\* no replacement pattern of String.prototype.replace
insertsLiterally(p) ==
  replacePlaceholder(placeholder(1), placeholder(1), literalOf(p)) = literalOf(p)

\* C27: the text inserted for a parameter is never matched as a placeholder
\* and replaced by a later parameter: whenever every literal is inserted
\* unchanged, the executed statement is the original statement with each
\* of its own placeholder occurrences replaced by its parameter's literal.
C27_SubstitutedTextNotRescanned ==
  (/\ pc = "executing"
   /\ \A i \in DOMAIN givenParameters :
        hasLiteral(givenParameters[i]) /\ insertsLiterally(givenParameters[i]))
  => executed[1] = withLiterals(baseSql, givenParameters)

(***************************************************************************)
(* Pagination of a statement that carries its terminator.                  *)
(***************************************************************************)
\* the statement, trimmed, ends with the statement terminator
endsWithTerminator(s) == trim(s) # << >> /\ trim(s)[Len(trim(s))] = ";"

\* a LIMIT or OFFSET keyword stands somewhere after a statement terminator
clauseAfterTerminator(text) ==
  \E i \in 1..Len(text) :
    /\ text[i] = ";"
    /\ LET rest == toUpperCase(SubSeq(text, i + 1, Len(text)))
       IN  includes(rest, kwLIMIT) \/ includes(rest, kwOFFSET)

\* C28: when the pagination rewriter adds LIMIT/OFFSET to a read-only
\* statement that ends with a semicolon, the clause is placed before the
\* semicolon: the executed text has no LIMIT or OFFSET after a terminator.
C28_ClauseInsideTerminatedStatement ==
  (/\ pc = "executing"
   /\ call.readOnly
   /\ call.branch = "paginated"
   /\ endsWithTerminator(input.sql.v))
  => ~clauseAfterTerminator(executed[1])

(***************************************************************************)
(* Overlapping calls of getDb and closeDb (SpecDb).                        *)
(***************************************************************************)
\* the instances on which destroy() has been called
destructionStarted == {i \in Instances : dbm.destroyCalls[i] > 0}

\* C29: under any interleaving of getDb and closeDb, the instance last
\* returned by getDb is not one whose destruction a closeDb call has
\* started, and destroy() is called on each instance at most once, also
\* when two closeDb calls overlap.
C29_NoDestroyedInstanceReturned ==
  /\ dbm.got # 0 => dbm.got \notin destructionStarted
  /\ \A i \in Instances : dbm.destroyCalls[i] <= 1

(***************************************************************************)
(* closeDb when no database instance exists (SpecDbSeq).                   *)
(***************************************************************************)
\* the call c of closeDb has started in this step
closeDbCalled(c) == dbm.closes[c].pc = "idle" /\ dbm'.closes[c].pc # "idle"

\* C30: a closeDb called when no database instance exists (never opened,
\* or already closed) completes without throwing, creates no instance and
\* no pool, and leaves the module as it was, so a second closeDb in a row
\* adds nothing to the first; this holds with and without DB_PASSWORD.
C30_CloseWithoutInstanceIsNoOp ==
  [][ \A c \in Closers :
        (dbm.db = 0 /\ closeDbCalled(c)) =>
           /\ dbm'.closes[c].pc = "done"
           /\ dbm'.db = 0
           /\ dbm'.pool = dbm.pool
           /\ dbm'.created = dbm.created
           /\ dbm'.destroyCalls = dbm.destroyCalls
           /\ dbm'.ended = dbm.ended ]_vars

====
